---- MODULE Spec2Model ----
(***************************************************************************)
(* Model of the CP / SMT model-construction engine of claasp:             *)
(*   cp_cipher_model.py, cp_impossible_xor_differential_model.py,         *)
(*   smt_deterministic_truncated_xor_differential_model.py and the XOR    *)
(*   component's CP constraint emitters.                                   *)
(* Python strings are TLA+ strings; Python lists of strings are           *)
(* sequences of strings.  String positions are 0-based as in Python.      *)
(***************************************************************************)
EXTENDS Integers, Sequences, FiniteSets, TLC

VARIABLES
    cipher_name,        \* which cipher graph the model object was built for
    model_prefix,       \* self._model_prefix
    variables_list,     \* self._variables_list
    model_constraints,  \* self._model_constraints
    sbox_mant,          \* self.sbox_mant
    middle_round,       \* self.middle_round
    component_log,      \* per component of the last build: what its iteration did
    last,               \* the last call and its arguments
    second_copy,        \* locals second_variables / second_constraints of the last call
    cc,                 \* the clean_constraints call of the last operation
    pf                  \* a method applied to drawn arguments: the call and its result

vars == <<cipher_name, model_prefix, variables_list, model_constraints,
          sbox_mant, middle_round, component_log, last, second_copy, cc, pf>>

(***************************************************************************)
(* Bounds of the exploration.                                              *)
(***************************************************************************)
\* longest arbitrary list handed to clean_constraints
MaxListLen == 2

\* longest list of differences handed to final_second_constraints
MaxDifferenceLen == 2
\* number of build_second_cipher_model calls explored after one build_cipher_model
MaxSecondBuilds == 1

(***************************************************************************)
(* Python string primitives.                                               *)
(***************************************************************************)
Min(a, b) == IF a < b THEN a ELSE b

Max(a, b) == IF a < b THEN b ELSE a

\* s[a:b]
Slice(s, a, b) == SubSeq(s, Min(Max(a, 0), Len(s)) + 1, Min(Max(b, 0), Len(s)))

\* s[a:]
SliceFrom(s, a) == Slice(s, a, Len(s))

\* s[i:].startswith(sub)
StartsAt(s, sub, i) ==
    /\ i >= 0
    /\ i + Len(sub) <= Len(s)
    /\ SubSeq(s, i + 1, i + Len(sub)) = sub

\* s.find(sub, start): lowest index >= start where sub occurs, -1 if none
Find(s, sub, start) ==
    LET hits == {i \in start..(Len(s) - Len(sub)) : StartsAt(s, sub, i)}
    IN  IF hits = {} THEN -1 ELSE CHOOSE i \in hits : \A j \in hits : i <= j

\* sub in s
StrIn(sub, s) == \E i \in 0..(Len(s) - Len(sub)) : StartsAt(s, sub, i)

\* s.index(sub, start), used only where the caller has tested "sub in s[start:]"
Index(s, sub, start) == Find(s, sub, start)

RECURSIVE Join(_, _)
\* sep.join(items)
Join(sep, items) ==
    IF Len(items) = 0 THEN ""
    ELSE IF Len(items) = 1 THEN items[1]
    ELSE items[1] \o sep \o Join(sep, Tail(items))

RECURSIVE Flatten(_)
\* concatenation of a list of lists
Flatten(ll) == IF Len(ll) = 0 THEN <<>> ELSE Head(ll) \o Flatten(Tail(ll))

\* the set of elements of a list
Range(l) == {l[i] : i \in 1..Len(l)}

\* x in l, for a list l
ListIn(x, l) == \E i \in 1..Len(l) : l[i] = x

\* [f(i) for i in range(n)]
Str(n) == ToString(n)

(***************************************************************************)
(* claasp.name_mappings and claasp.cipher_modules.models.cp.cp_model       *)
(***************************************************************************)
CIPHER_OUTPUT == "cipher_output"

CONSTANT_T == "constant"

INTERMEDIATE_OUTPUT == "intermediate_output"

LINEAR_LAYER == "linear_layer"

MIX_COLUMN == "mix_column"

SBOX == "sbox"

WORD_OPERATION == "word_operation"

solve_satisfy == "solve satisfy;"

(***************************************************************************)
(* Cipher graphs handed to the model classes.  A component is a record     *)
(* with the attributes the builders read.                                  *)
(***************************************************************************)
Comp(id, type, op, links, positions, size) ==
    [id |-> id, type |-> type, description |-> <<op, Len(links)>>,
     input_id_links |-> links, input_bit_positions |-> positions,
     output_bit_size |-> size]

\* one round: plaintext xor key, then the cipher output
ToyCipher ==
    [inputs |-> <<"plaintext", "key">>, inputs_bit_size |-> <<4, 4>>,
     rounds |-> <<
       << Comp("xor_0_0", WORD_OPERATION, "XOR", <<"plaintext", "key">>,
               <<<<0, 1, 2, 3>>, <<0, 1, 2, 3>>>>, 4),
          Comp("cipher_output_0_1", CIPHER_OUTPUT, "cipher_output", <<"xor_0_0">>,
               <<<<0, 1, 2, 3>>>>, 4) >> >>]

ToyCipherInverse ==
    [inputs |-> <<"cipher_output_0_1", "key">>, inputs_bit_size |-> <<4, 4>>,
     rounds |-> <<
       << Comp("xor_0_0", WORD_OPERATION, "XOR", <<"cipher_output_0_1", "key">>,
               <<<<0, 1, 2, 3>>, <<0, 1, 2, 3>>>>, 4),
          Comp("plaintext", CIPHER_OUTPUT, "cipher_output", <<"xor_0_0">>,
               <<<<0, 1, 2, 3>>>>, 4) >> >>]

\* three rounds with a constant and a key-schedule component
XorCipher ==
    [inputs |-> <<"plaintext", "key">>, inputs_bit_size |-> <<2, 2>>,
     rounds |-> <<
       << Comp("constant_0_0", CONSTANT_T, "0b01", <<>>, <<>>, 2),
          Comp("xor_0_1", WORD_OPERATION, "XOR", <<"key", "constant_0_0">>,
               <<<<0, 1>>, <<0, 1>>>>, 2),
          Comp("xor_0_2", WORD_OPERATION, "XOR", <<"plaintext", "xor_0_1">>,
               <<<<0, 1>>, <<0, 1>>>>, 2),
          Comp("intermediate_output_0_3", INTERMEDIATE_OUTPUT, "round_output",
               <<"xor_0_2">>, <<<<0, 1>>>>, 2) >>,
       << Comp("xor_1_0", WORD_OPERATION, "XOR", <<"xor_0_2", "key">>,
               <<<<0, 1>>, <<0, 1>>>>, 2),
          Comp("intermediate_output_1_1", INTERMEDIATE_OUTPUT, "round_output",
               <<"xor_1_0">>, <<<<0, 1>>>>, 2) >>,
       << Comp("xor_2_0", WORD_OPERATION, "XOR", <<"xor_1_0", "xor_0_1">>,
               <<<<0, 1>>, <<0, 1>>>>, 2),
          Comp("cipher_output_2_1", CIPHER_OUTPUT, "cipher_output", <<"xor_2_0">>,
               <<<<0, 1>>>>, 2) >> >>]

XorCipherInverse ==
    [inputs |-> <<"cipher_output_2_1", "key">>, inputs_bit_size |-> <<2, 2>>,
     rounds |-> <<
       << Comp("constant_0_0", CONSTANT_T, "0b01", <<>>, <<>>, 2),
          Comp("xor_0_1", WORD_OPERATION, "XOR", <<"key", "constant_0_0">>,
               <<<<0, 1>>, <<0, 1>>>>, 2),
          Comp("xor_2_0", WORD_OPERATION, "XOR", <<"cipher_output_2_1", "xor_0_1">>,
               <<<<0, 1>>, <<0, 1>>>>, 2),
          Comp("intermediate_output_1_1", INTERMEDIATE_OUTPUT, "round_output",
               <<"xor_2_0">>, <<<<0, 1>>>>, 2) >>,
       << Comp("xor_1_0", WORD_OPERATION, "XOR", <<"xor_2_0", "key">>,
               <<<<0, 1>>, <<0, 1>>>>, 2),
          Comp("intermediate_output_0_3", INTERMEDIATE_OUTPUT, "round_output",
               <<"xor_1_0">>, <<<<0, 1>>>>, 2) >>,
       << Comp("xor_0_2", WORD_OPERATION, "XOR", <<"xor_1_0", "xor_0_1">>,
               <<<<0, 1>>, <<0, 1>>>>, 2),
          Comp("plaintext", CIPHER_OUTPUT, "cipher_output", <<"xor_0_2">>,
               <<<<0, 1>>>>, 2) >> >>]

\* two rounds holding components outside the supported taxonomies:
\* SIGMA is supported by no builder, SHIFT_BY_VARIABLE_AMOUNT only by the
\* plain CP cipher model, XOR not by the SMT truncated model
SigmaCipher ==
    [inputs |-> <<"plaintext", "key">>, inputs_bit_size |-> <<2, 2>>,
     rounds |-> <<
       << Comp("sigma_0_0", WORD_OPERATION, "SIGMA", <<"plaintext">>, <<<<0, 1>>>>, 2),
          Comp("xor_0_1", WORD_OPERATION, "XOR", <<"sigma_0_0", "key">>,
               <<<<0, 1>>, <<0, 1>>>>, 2),
          Comp("intermediate_output_0_2", INTERMEDIATE_OUTPUT, "round_output",
               <<"xor_0_1">>, <<<<0, 1>>>>, 2) >>,
       << Comp("sigma_1_0", WORD_OPERATION, "SIGMA", <<"xor_0_1">>, <<<<0, 1>>>>, 2),
          Comp("var_shift_1_1", WORD_OPERATION, "SHIFT_BY_VARIABLE_AMOUNT",
               <<"sigma_1_0", "key">>, <<<<0, 1>>, <<0, 1>>>>, 2),
          Comp("cipher_output_1_2", CIPHER_OUTPUT, "cipher_output", <<"var_shift_1_1">>,
               <<<<0, 1>>>>, 2) >> >>]

SigmaCipherInverse ==
    [inputs |-> <<"cipher_output_1_2", "key">>, inputs_bit_size |-> <<2, 2>>,
     rounds |-> <<
       << Comp("var_shift_1_1", WORD_OPERATION, "SHIFT_BY_VARIABLE_AMOUNT",
               <<"cipher_output_1_2", "key">>, <<<<0, 1>>, <<0, 1>>>>, 2),
          Comp("sigma_1_0", WORD_OPERATION, "SIGMA", <<"var_shift_1_1">>, <<<<0, 1>>>>, 2),
          Comp("intermediate_output_0_2", INTERMEDIATE_OUTPUT, "round_output",
               <<"sigma_1_0">>, <<<<0, 1>>>>, 2) >>,
       << Comp("xor_0_1", WORD_OPERATION, "XOR", <<"sigma_1_0", "key">>,
               <<<<0, 1>>, <<0, 1>>>>, 2),
          Comp("sigma_0_0", WORD_OPERATION, "SIGMA", <<"xor_0_1">>, <<<<0, 1>>>>, 2),
          Comp("plaintext", CIPHER_OUTPUT, "cipher_output", <<"sigma_0_0">>,
               <<<<0, 1>>>>, 2) >> >>]

\* two rounds, both S-boxes holding the same table
SboxCipher ==
    [inputs |-> <<"plaintext", "key">>, inputs_bit_size |-> <<2, 2>>,
     rounds |-> <<
       << Comp("sbox_0_0", SBOX, "S", <<"plaintext">>, <<<<0, 1>>>>, 2),
          Comp("xor_0_1", WORD_OPERATION, "XOR", <<"sbox_0_0", "key">>,
               <<<<0, 1>>, <<0, 1>>>>, 2),
          Comp("intermediate_output_0_2", INTERMEDIATE_OUTPUT, "round_output",
               <<"xor_0_1">>, <<<<0, 1>>>>, 2) >>,
       << Comp("sbox_1_0", SBOX, "S", <<"xor_0_1">>, <<<<0, 1>>>>, 2),
          Comp("cipher_output_1_1", CIPHER_OUTPUT, "cipher_output", <<"sbox_1_0">>,
               <<<<0, 1>>>>, 2) >> >>]

SboxCipherInverse ==
    [inputs |-> <<"cipher_output_1_1", "key">>, inputs_bit_size |-> <<2, 2>>,
     rounds |-> <<
       << Comp("sbox_1_0", SBOX, "S", <<"cipher_output_1_1">>, <<<<0, 1>>>>, 2),
          Comp("intermediate_output_0_2", INTERMEDIATE_OUTPUT, "round_output",
               <<"sbox_1_0">>, <<<<0, 1>>>>, 2) >>,
       << Comp("xor_0_1", WORD_OPERATION, "XOR", <<"sbox_1_0", "key">>,
               <<<<0, 1>>, <<0, 1>>>>, 2),
          Comp("sbox_0_0", SBOX, "S", <<"xor_0_1">>, <<<<0, 1>>>>, 2),
          Comp("plaintext", CIPHER_OUTPUT, "cipher_output", <<"sbox_0_0">>,
               <<<<0, 1>>>>, 2) >> >>]

CipherNames == {"toy", "xor", "sigma"}

\* self._cipher
Cipher(name) ==
    CASE name = "toy" -> ToyCipher
      [] name = "xor" -> XorCipher
      [] name = "sigma" -> SigmaCipher
      [] name = "sbox" -> SboxCipher

\* self.inverse_cipher = cipher.cipher_inverse()
InverseCipher(name) ==
    CASE name = "toy" -> ToyCipherInverse
      [] name = "xor" -> XorCipherInverse
      [] name = "sigma" -> SigmaCipherInverse
      [] name = "sbox" -> SboxCipherInverse

number_of_rounds(c) == Len(c.rounds)

\* cipher.get_components_in_round(r), r 0-based
get_components_in_round(c, r) == c.rounds[r + 1]

get_all_components(c) == Flatten(c.rounds)

get_all_components_ids(c) ==
    [i \in 1..Len(get_all_components(c)) |-> get_all_components(c)[i].id]

\* components of rounds lo .. hi-1: the loops "for r in range(lo, hi)"
ComponentsInRounds(c, lo, hi) ==
    Flatten([k \in 1..Max(hi - lo, 0) |-> get_components_in_round(c, lo + k - 1)])

(***************************************************************************)
(* Component constraint emitters.                                          *)
(***************************************************************************)
\* [f'{id_link}[{position}]' for position in bit_positions], over all links
AllInputs(c) ==
    Flatten([k \in 1..Len(c.input_id_links) |->
               [j \in 1..Len(c.input_bit_positions[k]) |->
                  c.input_id_links[k] \o "[" \o Str(c.input_bit_positions[k][j]) \o "]"]])

RECURSIVE Stride(_, _, _)
\* l[i::n], i 0-based
Stride(l, i, n) ==
    IF i >= Len(l) THEN <<>> ELSE <<l[i + 1]>> \o Stride(l, i + n, n)

XorCpConstraintsOfFirstInput(c) ==
    <<  <<>>,
        [k \in 1..c.output_bit_size |->
           "constraint " \o c.id \o "[" \o Str(k - 1) \o "] = ("
             \o AllInputs(c)[k]
             \o ") mod 2;"] >>

\* XOR.cp_constraints: (declarations, constraints)
XorCpConstraints(c) ==
    <<  <<>>,
        [k \in 1..c.output_bit_size |->
           "constraint " \o c.id \o "[" \o Str(k - 1) \o "] = ("
             \o Join(" + ", Stride(AllInputs(c), k - 1, c.output_bit_size))
             \o ") mod 2;"] >>

\* XOR.cp_deterministic_truncated_xor_differential_constraints(inverse=False)
XorCpDeterministicTruncatedConstraints(c) ==
    <<  <<>>,
        [k \in 1..c.output_bit_size |->
           LET ins == Stride(AllInputs(c), k - 1, c.output_bit_size)
               i   == Str(k - 1)
           IN  "constraint if ((" \o Join(" < 2) /\\ (", ins) \o "< 2)) then "
                 \o c.id \o "[" \o i \o "] = (" \o Join(" + ", ins) \o ") mod 2 else "
                 \o c.id \o "[" \o i \o "] = 2 endif;"] >>

\* emitter of a component that copies its input bits (output components and
\* the word operations whose emitters are not part of the modelled files)
CopyCpConstraints(c) ==
    <<  <<>>,
        [k \in 1..Min(c.output_bit_size, Len(AllInputs(c))) |->
           "constraint " \o c.id \o "[" \o Str(k - 1) \o "] = " \o AllInputs(c)[k] \o ";"] >>

\* emitter of a constant: one initialised array declaration, no constraint
ConstantCpConstraints(c) ==
    <<  << "array[0.." \o Str(c.output_bit_size - 1) \o "] of int: " \o c.id
             \o " = array1d(0.." \o Str(c.output_bit_size - 1) \o ", ["
             \o Join(",", [k \in 1..c.output_bit_size |-> "0"]) \o "]);" >>,
        <<>> >>

\* emitter of an S-box, for both paradigms: a constraint that looks its output
\* up in the table of its description and, unless the accumulator already
\* holds that description, the declaration of the table; the accumulator
\* after the call holds the description
SboxConstraints(c, mant) ==
    <<  IF ListIn(c.description[1], mant) THEN <<>>
        ELSE << "array[0..3] of int: table_" \o c.description[1]
                  \o " = array1d(0..3, [1,0,3,2]);" >>,
        << "constraint " \o c.id \o " = table_" \o c.description[1] \o "["
             \o c.input_id_links[1] \o "];" >>,
        IF ListIn(c.description[1], mant) THEN mant ELSE Append(mant, c.description[1]) >>

\* component.cp_constraints()
cp_constraints(c) ==
    IF c.type = CONSTANT_T THEN ConstantCpConstraints(c)
    ELSE IF c.type = WORD_OPERATION /\ c.description[1] = "XOR" THEN XorCpConstraints(c)
    ELSE CopyCpConstraints(c)

\* component.cp_deterministic_truncated_xor_differential_trail_constraints()
cp_deterministic_truncated_xor_differential_trail_constraints(c) ==
    IF c.type = CONSTANT_T THEN ConstantCpConstraints(c)
    ELSE IF c.type = WORD_OPERATION /\ c.description[1] = "XOR"
         THEN XorCpDeterministicTruncatedConstraints(c)
    ELSE CopyCpConstraints(c)

(***************************************************************************)
(* CpModel helpers used by the builders.                                   *)
(***************************************************************************)
\* CpModel.initialise_model: the prefix after a reset
InitialPrefix == << "include \"globals.mzn\";" >>

\* CpModel.fix_variables_value_constraints: one constraint per fixed bit
fix_variables_value_constraints(fixed_variables) ==
    Flatten([r \in 1..Len(fixed_variables) |->
       LET fv == fixed_variables[r]
           sign == IF fv.constraint_type = "equal" THEN "=" ELSE "!="
       IN  [k \in 1..Len(fv.bit_positions) |->
              "constraint " \o fv.component_id \o "[" \o Str(fv.bit_positions[k])
                \o "] " \o sign \o " " \o Str(fv.binary_value[k]) \o ";"]])

FixKey ==
    [component_id |-> "key", constraint_type |-> "equal",
     bit_positions |-> <<0, 1>>, binary_value |-> <<0, 0>>]

FixPlaintext ==
    [component_id |-> "plaintext", constraint_type |-> "not_equal",
     bit_positions |-> <<0>>, binary_value |-> <<0>>]

\* the fixed_variables arguments explored
FixedVariablesChoices == { <<>>, <<FixKey>>, <<FixKey, FixPlaintext>> }

(***************************************************************************)
(* CpCipherModel                                                           *)
(***************************************************************************)
\* input_constraints that declares the cipher inputs only
input_constraints_inputs_only(c) ==
    [k \in 1..Len(c.inputs) |->
       "array[0.." \o Str(c.inputs_bit_size[k] - 1) \o "] of var 0..1: " \o c.inputs[k] \o ";"]

input_constraints_declaring_constants(c) ==
    [k \in 1..Len(c.inputs) |->
       "array[0.." \o Str(c.inputs_bit_size[k] - 1) \o "] of var 0..1: " \o c.inputs[k] \o ";"]
    \o
    [k \in 1..Len(get_all_components(c)) |->
       "array[0.." \o Str(get_all_components(c)[k].output_bit_size - 1) \o "] of var 0..1: "
         \o get_all_components(c)[k].id \o ";"]

\* CpCipherModel.input_constraints
input_constraints(c) ==
    [k \in 1..Len(c.inputs) |->
       "array[0.." \o Str(c.inputs_bit_size[k] - 1) \o "] of var 0..1: " \o c.inputs[k] \o ";"]
    \o
    Flatten([k \in 1..Len(get_all_components(c)) |->
       LET component == get_all_components(c)[k] IN
       IF ~StrIn(CONSTANT_T, component.type)
       THEN << "array[0.." \o Str(component.output_bit_size - 1) \o "] of var 0..1: "
                 \o component.id \o ";" >>
       ELSE <<>>])

\* CpCipherModel.input_second_constraints
input_second_constraints(c) ==
    [k \in 1..Len(c.inputs) |->
       "array[0.." \o Str(c.inputs_bit_size[k] - 1) \o "] of var 0..1: second_"
         \o c.inputs[k] \o ";"]
    \o
    Flatten([k \in 1..Len(get_all_components(c)) |->
       LET component == get_all_components(c)[k] IN
       IF ~StrIn(CONSTANT_T, component.type)
       THEN << "array[0.." \o Str(component.output_bit_size - 1) \o "] of var 0..1: second_"
                 \o component.id \o ";" >>
       ELSE <<>>])

RECURSIVE Concat(_)
\* the concatenation of a list of strings
Concat(parts) == IF Len(parts) = 0 THEN "" ELSE Head(parts) \o Concat(Tail(parts))

final_constraints_sentinel_after_inputs(c) ==
    LET all == c.inputs \o get_all_components_ids(c)
        new_constraint ==
          "output["
          \o Concat([k \in 1..Len(all) |->
               "\"" \o all[k] \o " = \"++ show(" \o all[k]
                 \o ")++ \"\\n\" ++ \"0\" ++ \"\\n\" ++"])
    IN  << solve_satisfy, Slice(new_constraint, 0, Len(new_constraint) - 2) \o "];" >>

\* CpCipherModel.final_constraints
final_constraints(c) ==
    LET ids == get_all_components_ids(c)
        new_constraint ==
          "output["
          \o Concat([k \in 1..Len(c.inputs) |->
               "\"" \o c.inputs[k] \o " = \"++ show(" \o c.inputs[k] \o ") ++ \"\\n\" ++"])
          \o Concat([k \in 1..Len(ids) |->
               "\"" \o ids[k] \o " = \"++ show(" \o ids[k]
                 \o ")++ \"\\n\" ++ \"0\" ++ \"\\n\" ++"])
    IN  << solve_satisfy, Slice(new_constraint, 0, Len(new_constraint) - 2) \o "];" >>

\* the component_types / operation_types test of build_cipher_model
CipherModelSupported(component) ==
    LET component_types == {CIPHER_OUTPUT, CONSTANT_T, INTERMEDIATE_OUTPUT, LINEAR_LAYER,
                            MIX_COLUMN, SBOX, WORD_OPERATION}
        operation_types == {"AND", "MODADD", "MODSUB", "NOT", "OR", "ROTATE", "SHIFT",
                            "SHIFT_BY_VARIABLE_AMOUNT", "XOR"}
    IN  ~ ( \/ component.type \notin component_types
            \/ (WORD_OPERATION = component.type
                /\ component.description[1] \notin operation_types) )

\* what one loop iteration did to the two lists it extends: their lengths
\* before and after, whether the component passed the support test and
\* whether its emitter was called
LogEntry(component, supported, called, v0, v1, c0, c1) ==
    [id |-> component.id, supported |-> supported, called |-> called,
     variables_before |-> v0, variables_after |-> v1,
     constraints_before |-> c0, constraints_after |-> c1]

\* one iteration of the component loop of build_cipher_model.  The loop
\* state st holds the locals "variables" and "constraints" and the two
\* buffers; st.aliased records that the local "constraints" is still the
\* very list object self._model_constraints.
CipherModelStep(st, component) ==
    LET Extend(supported, variables, constraints, aliased, mant) ==
          LET Record(vlist, mcons) ==
                [variables |-> variables, constraints |-> constraints, aliased |-> aliased,
                 vlist |-> vlist, mcons |-> mcons, sbox_mant |-> mant,
                 log |-> Append(st.log, LogEntry(component, supported, supported,
                                                 Len(st.vlist), Len(vlist),
                                                 Len(st.mcons), Len(mcons)))]
          IN  Record(st.vlist \o variables,
                     st.mcons \o (IF aliased THEN st.mcons ELSE constraints))
        Emit(supported, out) ==
          IF supported THEN Extend(TRUE, out[1], out[2], FALSE, out[3])
          ELSE Extend(FALSE, st.variables, st.constraints, st.aliased, st.sbox_mant)
    IN  Emit(CipherModelSupported(component),
             IF component.type # SBOX THEN cp_constraints(component) \o <<st.sbox_mant>>
             ELSE SboxConstraints(component, st.sbox_mant))

RECURSIVE CipherModelLoop(_, _, _)
CipherModelLoop(st, comps, k) ==
    IF k > Len(comps) THEN st
    ELSE CipherModelLoop(CipherModelStep(st, comps[k]), comps, k + 1)

\* build_cipher_model without the statement self.sbox_mant = []
build_cipher_model_keeping_accumulator(o, c, fixed_variables, second) ==
    LET Finish(prefix, st) ==
          [prefix |-> prefix,
           vlist |-> st.vlist,
           mcons |-> IF ~second THEN prefix \o st.vlist \o st.mcons \o final_constraints(c)
                     ELSE st.mcons \o final_constraints(c),
           sbox_mant |-> st.sbox_mant,
           log |-> st.log]
    IN  Finish(o.prefix \o input_constraints(c),
               CipherModelLoop([variables |-> <<>>, constraints |-> <<>>, aliased |-> TRUE,
                                vlist |-> <<>>, sbox_mant |-> o.sbox_mant,
                                mcons |-> fix_variables_value_constraints(fixed_variables),
                                log |-> <<>>],
                               get_all_components(c), 1))

\* CpCipherModel.build_cipher_model: the fields after the call
build_cipher_model(o, c, fixed_variables, second) ==
    LET Finish(prefix, st) ==
          [prefix |-> prefix,
           vlist |-> st.vlist,
           mcons |-> IF ~second THEN prefix \o st.vlist \o st.mcons \o final_constraints(c)
                     ELSE st.mcons \o final_constraints(c),
           sbox_mant |-> st.sbox_mant,
           log |-> st.log]
    IN  Finish(o.prefix \o input_constraints(c),
               CipherModelLoop([variables |-> <<>>, constraints |-> <<>>, aliased |-> TRUE,
                                vlist |-> <<>>, sbox_mant |-> <<>>,
                                mcons |-> fix_variables_value_constraints(fixed_variables),
                                log |-> <<>>],
                               get_all_components(c), 1))

RECURSIVE PrefixLoop(_, _, _, _, _)
\* the rewriting loop shared by build_second_cipher_model and
\* clean_inverse_impossible_variables_constraints:
\*     start = 0
\*     while ident in s[start:]:
\*         new_start = s.index(ident, start)
\*         s = s[:new_start] + tag + s[new_start:]
\*         start = new_start + skip
PrefixLoop(s, ident, tag, skip, start) ==
    IF StrIn(ident, SliceFrom(s, start))
    THEN LET new_start == Index(s, ident, start)
         IN  PrefixLoop(Slice(s, 0, new_start) \o tag \o SliceFrom(s, new_start),
                        ident, tag, skip, new_start + skip)
    ELSE s

\* the loop applied to every string of a list
PrefixAll(l, ident, tag, skip) ==
    <<>> \o [k \in 1..Len(l) |-> PrefixLoop(l[k], ident, tag, skip, 0)]

RECURSIVE PrefixEach(_, _, _, _, _)
\* "for component in idents: for v in range(len(l)): <loop>"
PrefixEach(l, idents, k, tag, skip) ==
    IF k > Len(idents) THEN l
    ELSE PrefixEach(PrefixAll(l, idents[k], tag, skip), idents, k + 1, tag, skip)

\* the distance build_second_cipher_model moves "start" after an insertion
SecondSkip == 8

\* the rewrite of one component's own strings in build_second_cipher_model
SecondOwnRewrite(l, component) == PrefixAll(l, component.id, "second_", SecondSkip)

\* the rewrite of the cipher input names in build_second_cipher_model
SecondInputsRewrite(l, inputs) == PrefixEach(l, inputs, 1, "second_", SecondSkip)

\* the method with the second operand of every linking constraint taken one
\* bit further
final_second_constraints_shifted(c, differences) ==
    LET ids == get_all_components_ids(c)
        cipher_output == ids[Len(ids)]
    IN  [k \in 1..Len(differences[1]) |->
           "constraint (plaintext[" \o Str(k - 1) \o "] + second_plaintext["
             \o Str(k) \o "]) mod 2 = " \o Str(differences[1][k]) \o ";"]
        \o
        [k \in 1..Len(differences[2]) |->
           "constraint (" \o cipher_output \o "[" \o Str(k - 1) \o "] + second_"
             \o cipher_output \o "[" \o Str(k) \o "]) mod 2 = "
             \o Str(differences[2][k]) \o ";"]
        \o << "output[];" >>

\* CpCipherModel.final_second_constraints
final_second_constraints(c, differences) ==
    LET ids == get_all_components_ids(c)
        cipher_output == ids[Len(ids)]
        incompatibility_constraints ==
          [k \in 1..Len(differences[1]) |->
             "constraint (plaintext[" \o Str(k - 1) \o "] + second_plaintext["
               \o Str(k - 1) \o "]) mod 2 = " \o Str(differences[1][k]) \o ";"]
          \o
          [k \in 1..Len(differences[2]) |->
             "constraint (" \o cipher_output \o "[" \o Str(k - 1) \o "] + second_"
               \o cipher_output \o "[" \o Str(k - 1) \o "]) mod 2 = "
               \o Str(differences[2][k]) \o ";"]
        new_constraint ==
          "output["
          \o Concat([k \in 1..Len(c.inputs) |->
               "\"second_" \o c.inputs[k] \o " = \"++ show(second_" \o c.inputs[k]
                 \o ") ++ \"\\n\" ++"])
          \o Concat([k \in 1..Len(ids) |->
               "\"second_" \o ids[k] \o " = \"++ show(second_" \o ids[k]
                 \o ")++ \"\\n\" ++ \"0\" ++ \"\\n\" ++"])
    IN  incompatibility_constraints
          \o << Slice(new_constraint, 0, Len(new_constraint) - 2) \o "];" >>

\* one iteration of the component loop of build_second_cipher_model
SecondModelStep(st, component) ==
    LET Extend(supported, variables, constraints, mant) ==
          [second_variables |-> variables,
           second_constraints |-> constraints,
           sbox_mant |-> mant,
           log |-> Append(st.log, LogEntry(component, supported, supported,
                                           Len(st.second_variables), Len(variables),
                                           Len(st.second_constraints), Len(constraints)))]
        Emit(supported, out) ==
          IF supported
          THEN Extend(TRUE, st.second_variables \o SecondOwnRewrite(out[1], component),
                      st.second_constraints \o SecondOwnRewrite(out[2], component), out[3])
          ELSE Extend(FALSE, st.second_variables, st.second_constraints, st.sbox_mant)
    IN  Emit(CipherModelSupported(component),
             IF component.type # SBOX THEN cp_constraints(component) \o <<st.sbox_mant>>
             ELSE SboxConstraints(component, st.sbox_mant))

RECURSIVE SecondModelLoop(_, _, _)
SecondModelLoop(st, comps, k) ==
    IF k > Len(comps) THEN st
    ELSE SecondModelLoop(SecondModelStep(st, comps[k]), comps, k + 1)

\* the second-copy lists of build_second_cipher_model (lines 131-168); the
\* accumulator is the empty one input_second_constraints leaves (line 305)
SecondCopy(c) ==
    LET Rewrite(st) ==
          [second_variables |-> SecondInputsRewrite(st.second_variables, c.inputs),
           second_constraints |-> SecondInputsRewrite(st.second_constraints, c.inputs),
           sbox_mant |-> st.sbox_mant,
           log |-> st.log]
    IN  Rewrite(SecondModelLoop([second_variables |-> <<>>, second_constraints |-> <<>>,
                                 sbox_mant |-> <<>>, log |-> <<>>],
                                get_all_components(c), 1))

\* CpCipherModel.build_second_cipher_model, run on the fields (prefix, vlist, mcons)
build_second_cipher_model(c, prefix, vlist, mcons, fixed_variables, differences) ==
    LET Finish(prefix1, copy) ==
          [prefix |-> prefix1,
           vlist |-> vlist \o copy.second_variables,
           mcons |-> prefix1 \o vlist \o copy.second_variables
                       \o mcons \o fix_variables_value_constraints(fixed_variables)
                       \o copy.second_constraints
                       \o final_second_constraints(c, differences),
           second_variables |-> copy.second_variables,
           second_constraints |-> copy.second_constraints,
           sbox_mant |-> copy.sbox_mant,
           log |-> copy.log]
    IN  Finish(prefix \o input_second_constraints(c), SecondCopy(c))

\* the differences arguments explored: (plaintext difference, output difference)
DifferencesChoices == { << <<0, 1>>, <<1, 0>> >>, << <<1>>, <<>> >> }

(***************************************************************************)
(* CpImpossibleXorDifferentialModel                                        *)
(***************************************************************************)
\* the component_types / operation_types test of build_impossible_forward_model
\* and build_impossible_backward_model
ImpossibleSupported(component) ==
    LET component_types == {CONSTANT_T, INTERMEDIATE_OUTPUT, CIPHER_OUTPUT, LINEAR_LAYER,
                            SBOX, MIX_COLUMN, WORD_OPERATION}
        operation_types == {"AND", "OR", "MODADD", "MODSUB", "NOT", "ROTATE", "SHIFT", "XOR"}
    IN  ~ ( \/ component.type \notin component_types
            \/ (component.type = WORD_OPERATION
                /\ component.description[1] \notin operation_types) )

\* one iteration of the loop of build_impossible_forward_model: the test only
\* prints, the emitter is called in either case
ImpossibleForwardStep(st, component) ==
    LET Extend(out) ==
          [variables |-> st.variables \o out[1],
           constraints |-> st.constraints \o out[2],
           sbox_mant |-> out[3],
           log |-> Append(st.log,
                     LogEntry(component, ImpossibleSupported(component), TRUE,
                              Len(st.variables), Len(st.variables) + Len(out[1]),
                              Len(st.constraints), Len(st.constraints) + Len(out[2])))]
    IN  Extend(IF component.type = SBOX THEN SboxConstraints(component, st.sbox_mant)
               ELSE cp_deterministic_truncated_xor_differential_trail_constraints(component)
                      \o <<st.sbox_mant>>)

RECURSIVE ImpossibleForwardLoop(_, _, _)
ImpossibleForwardLoop(st, comps, k) ==
    IF k > Len(comps) THEN st
    ELSE ImpossibleForwardLoop(ImpossibleForwardStep(st, comps[k]), comps, k + 1)

\* CpImpossibleXorDifferentialModel.build_impossible_forward_model; mant is
\* self.sbox_mant when the method is entered
build_impossible_forward_model(forward_components, mant) ==
    ImpossibleForwardLoop([variables |-> <<>>, constraints |-> <<>>, sbox_mant |-> mant,
                           log |-> <<>>],
                          forward_components, 1)

\* the distance clean_inverse_impossible_variables_constraints moves "start"
InverseSkip == 9

RECURSIVE CollapseLoopAdvancing(_, _)
\* the cleanup loop with start moved past the tag it kept
CollapseLoopAdvancing(s, start) ==
    IF StrIn("inverse_inverse_", SliceFrom(s, start))
    THEN LET new_start == Index(s, "inverse_inverse_", start)
         IN  CollapseLoopAdvancing(Slice(s, 0, new_start) \o SliceFrom(s, new_start + 8),
                                   new_start + 8)
    ELSE s

RECURSIVE CollapseLoop(_, _)
\* the cleanup loop:
\*     start = 0
\*     while 'inverse_inverse_' in s[start:]:
\*         new_start = s.index('inverse_inverse_', start)
\*         s = s[:new_start] + s[new_start + 8:]
\*         start = new_start
CollapseLoop(s, start) ==
    IF StrIn("inverse_inverse_", SliceFrom(s, start))
    THEN LET new_start == Index(s, "inverse_inverse_", start)
         IN  CollapseLoop(Slice(s, 0, new_start) \o SliceFrom(s, new_start + 8), new_start)
    ELSE s

\* the method with the cleanup loop run over the declarations only
clean_inverse_declarations_only(backward_components, inverse_variables, inverse_constraints) ==
    LET ids == [k \in 1..Len(backward_components) |-> backward_components[k].id]
        Variables(v1) == <<>> \o [k \in 1..Len(v1) |-> CollapseLoop(v1[k], 0)]
        Constraints(c1) ==
          <<>> \o [k \in 1..Len(c1) |->
                     PrefixLoop(c1[k], "cipher_output", "inverse_", InverseSkip, 0)]
    IN  << Variables(PrefixEach(inverse_variables, ids, 1, "inverse_", InverseSkip)),
           Constraints(PrefixEach(inverse_constraints, ids, 1, "inverse_", InverseSkip)) >>

\* CpImpossibleXorDifferentialModel.clean_inverse_impossible_variables_constraints
clean_inverse_impossible_variables_constraints(backward_components, inverse_variables, inverse_constraints) ==
    LET ids == [k \in 1..Len(backward_components) |-> backward_components[k].id]
        Variables(v1) == <<>> \o [k \in 1..Len(v1) |-> CollapseLoop(v1[k], 0)]
        Constraints(c1) ==
          <<>> \o [k \in 1..Len(c1) |->
                     CollapseLoop(PrefixLoop(c1[k], "cipher_output", "inverse_",
                                             InverseSkip, 0), 0)]
    IN  << Variables(PrefixEach(inverse_variables, ids, 1, "inverse_", InverseSkip)),
           Constraints(PrefixEach(inverse_constraints, ids, 1, "inverse_", InverseSkip)) >>

\* CpImpossibleXorDifferentialModel.build_impossible_backward_model
build_impossible_backward_model(backward_components, mant) ==
    LET Clean(st) ==
          LET Result(cleaned) ==
                [variables |-> cleaned[1], constraints |-> cleaned[2],
                 sbox_mant |-> st.sbox_mant, log |-> st.log]
          IN  Result(clean_inverse_impossible_variables_constraints(
                         backward_components, st.variables, st.constraints))
    IN  Clean(ImpossibleForwardLoop([variables |-> <<>>, constraints |-> <<>>,
                                     sbox_mant |-> mant, log |-> <<>>],
                                    backward_components, 1))

RECURSIVE KeyScheduleLoop(_, _, _)
\* the pass of extract_key_schedule over the components from position k on
KeyScheduleLoop(ids, comps, k) ==
    IF k > Len(comps) THEN ids
    ELSE LET links == comps[k].input_id_links
             ks == \A j \in 1..Len(links) :
                      ~ (~StrIn("constant", links[j]) /\ ~ListIn(links[j], ids))
         IN  KeyScheduleLoop(IF ks THEN Append(ids, comps[k].id) ELSE ids, comps, k + 1)

extract_key_schedule_last_first(c) ==
    KeyScheduleLoop(<<"key">>,
                    [k \in 1..Len(get_all_components(c)) |->
                       get_all_components(c)[Len(get_all_components(c)) + 1 - k]], 1)

\* CpImpossibleXorDifferentialModel.extract_key_schedule: key_schedule_components_ids
extract_key_schedule(c) == KeyScheduleLoop(<<"key">>, get_all_components(c), 1)

\* the ids of the components of a list whose id contains 'output'
OutputIds(comps) ==
    Flatten([k \in 1..Len(comps) |->
               IF StrIn("output", comps[k].id) THEN <<comps[k].id>> ELSE <<>>])

\* the declaration (and count constraint) one component gets in the
\* input_impossible_* methods; tag is '' or 'inverse_'
ImpossibleDeclaration(component, tag) ==
    LET decl == "array[0.." \o Str(component.output_bit_size - 1) \o "] of var 0..2: "
                  \o tag \o component.id \o ";"
    IN  IF StrIn("output", component.type) THEN << <<decl>>, <<>> >>
        ELSE IF StrIn(CIPHER_OUTPUT, component.type)
        THEN << <<decl>>,
                << "constraint count(" \o tag \o component.id \o ",2) < "
                     \o Str(component.output_bit_size) \o ";" >> >>
        ELSE IF ~StrIn(CONSTANT_T, component.type) THEN << <<decl>>, <<>> >>
        ELSE << <<>>, <<>> >>

\* declarations and count constraints of a list of components
ImpossibleDeclarations(comps, tag) ==
    << Flatten([k \in 1..Len(comps) |-> ImpossibleDeclaration(comps[k], tag)[1]]),
       Flatten([k \in 1..Len(comps) |-> ImpossibleDeclaration(comps[k], tag)[2]]) >>

\* CpImpossibleXorDifferentialModel.input_impossible_xor_differential_constraints
input_impossible_xor_differential_constraints(c, inv, nr, middle) ==
    LET forward_components == ComponentsInRounds(c, 0, middle)
        backward_components == ComponentsInRounds(inv, 0, nr - middle + 1)
        fwd == ImpossibleDeclarations(forward_components, "")
        bwd == ImpossibleDeclarations(backward_components, "inverse_")
    IN  << [k \in 1..Len(c.inputs) |->
              "array[0.." \o Str(c.inputs_bit_size[k] - 1) \o "] of var 0..2: "
                \o c.inputs[k] \o ";"]
           \o [k \in 1..Len(inv.inputs) |->
              "array[0.." \o Str(inv.inputs_bit_size[k] - 1) \o "] of var 0..2: inverse_"
                \o inv.inputs[k] \o ";"]
           \o fwd[1] \o bwd[1],
           fwd[2] \o bwd[2] \o << "constraint count(plaintext,1) > 0;" >> >>

\* the part of the output directive and of the incompatibility constraint
\* that one component of the middle round contributes
MiddleComponentParts(component, key_schedule_components_ids) ==
    IF component.type # CONSTANT_T /\ ~ListIn(component.id, key_schedule_components_ids)
    THEN LET component_inputs == AllInputs(component)
         IN  [shown |->
                Concat([k \in 1..Len(component.input_id_links) |->
                   "\"" \o component.input_id_links[k] \o " = \"++ show("
                     \o component.input_id_links[k] \o ")++ \"\\n\" ++ \"0\" ++ \"\\n\" ++"])
                \o "\"inverse_" \o component.id \o " = \"++ show(inverse_" \o component.id
                \o ")++ \"\\n\" ++ \"0\" ++ \"\\n\" ++",
              incompatibility |->
                Concat([k \in 1..Len(component_inputs) |->
                   "(" \o component_inputs[k] \o "+inverse_" \o component.id \o "["
                     \o Str(k - 1) \o "]=1) \\/ "])]
    ELSE [shown |-> "", incompatibility |-> ""]

\* CpImpossibleXorDifferentialModel.final_impossible_constraints
final_impossible_constraints(c, inv, initial_round, middle, final_round) ==
    LET cipher_inputs ==
          IF initial_round = 1 THEN c.inputs
          ELSE <<"key">> \o OutputIds(get_components_in_round(c, initial_round - 2))
        cipher_outputs ==
          IF final_round = number_of_rounds(c) THEN inv.inputs
          ELSE <<"key">>
               \o OutputIds(get_components_in_round(inv, number_of_rounds(c) - final_round))
        key_ids == extract_key_schedule(c)
        mid == get_components_in_round(c, middle - 1)
        new_constraint ==
          "output["
          \o Concat([k \in 1..Len(cipher_inputs) |->
               "\"" \o cipher_inputs[k] \o " = \"++ show(" \o cipher_inputs[k]
                 \o ") ++ \"\\n\" ++"])
          \o Concat([k \in 1..Len(cipher_outputs) |->
               "\"inverse_" \o cipher_outputs[k] \o " = \"++ show(inverse_"
                 \o cipher_outputs[k] \o ") ++ \"\\n\" ++ \"0\" ++ \"\\n\" ++"])
          \o Concat([k \in 1..Len(mid) |-> MiddleComponentParts(mid[k], key_ids).shown])
        incompatibility_constraint ==
          "constraint"
          \o Concat([k \in 1..Len(mid) |-> MiddleComponentParts(mid[k], key_ids).incompatibility])
    IN  << solve_satisfy,
           Slice(incompatibility_constraint, 0, Len(incompatibility_constraint) - 4) \o ";",
           Slice(new_constraint, 0, Len(new_constraint) - 2) \o "];" >>

\* the keep-list without the key-schedule ids
ComponentsToKeepNoKeySchedule(c, inv, initial_round, middle, final_round) ==
    LET nr == number_of_rounds(c)
        fwd == ComponentsInRounds(c, initial_round - 1, middle)
        bwd == ComponentsInRounds(inv, nr - final_round, nr - middle + 1)
    IN  [k \in 1..Len(fwd) |-> fwd[k].id]
          \o [k \in 1..Len(bwd) |-> "inverse_" \o bwd[k].id]
          \o << "array[" >>
          \o (IF initial_round = 1 THEN c.inputs ELSE <<>>)
          \o (IF final_round = nr
              THEN [k \in 1..Len(inv.inputs) |-> "inverse_" \o inv.inputs[k]]
              ELSE <<>>)
          \o (IF initial_round > 1
              THEN OutputIds(get_components_in_round(c, initial_round - 2))
              ELSE <<>>)

\* the keep-list of clean_constraints (lines 202-219), as far as it is built
\* when the filter loop starts
ComponentsToKeep(c, inv, initial_round, middle, final_round) ==
    LET nr == number_of_rounds(c)
        fwd == ComponentsInRounds(c, initial_round - 1, middle)
        bwd == ComponentsInRounds(inv, nr - final_round, nr - middle + 1)
        forward_components == [k \in 1..Len(fwd) |-> fwd[k].id]
        backward_components == [k \in 1..Len(bwd) |-> "inverse_" \o bwd[k].id]
        key_ids == extract_key_schedule(c)
    IN  forward_components \o backward_components \o key_ids
          \o [k \in 1..Len(key_ids) |-> "inverse_" \o key_ids[k]]
          \o << "array[" >>
          \o (IF initial_round = 1 THEN c.inputs ELSE <<>>)
          \o (IF final_round = nr
              THEN [k \in 1..Len(inv.inputs) |-> "inverse_" \o inv.inputs[k]]
              ELSE <<>>)
          \o (IF initial_round > 1
              THEN OutputIds(get_components_in_round(c, initial_round - 2))
              ELSE <<>>)

RECURSIVE KeepInnerPrepend(_, _, _, _)
\* the inner loop with insert(0, constraint) in place of append(constraint)
KeepInnerPrepend(model, id_link, set_of_constraints, j) ==
    IF j > Len(set_of_constraints) THEN model
    ELSE IF ~ListIn(set_of_constraints[j], model) /\ StrIn(id_link, set_of_constraints[j])
         THEN KeepInnerPrepend(<<set_of_constraints[j]>> \o model, id_link,
                               set_of_constraints, j + 1)
    ELSE KeepInnerPrepend(model, id_link, set_of_constraints, j + 1)

RECURSIVE KeepInner(_, _, _, _)
\* the inner loop of clean_constraints (lines 221-223) for one id_link; the
\* two tests of line 222 do not depend on each other, and the membership
\* test is written first
KeepInner(model, id_link, set_of_constraints, j) ==
    IF j > Len(set_of_constraints) THEN model
    ELSE IF ~ListIn(set_of_constraints[j], model) /\ StrIn(id_link, set_of_constraints[j])
         THEN KeepInner(Append(model, set_of_constraints[j]), id_link,
                        set_of_constraints, j + 1)
    ELSE KeepInner(model, id_link, set_of_constraints, j + 1)

RECURSIVE KeepLoop(_, _, _, _)
\* the outer loop of clean_constraints (line 220)
KeepLoop(model, keep, set_of_constraints, k) ==
    IF k > Len(keep) THEN model
    ELSE LET model1 == KeepInner(model, keep[k], set_of_constraints, 1)
         IN  KeepLoop(model1, keep, set_of_constraints, k + 1)

\* the test with the last round taken 0-based
FullWindowZeroBased(c, initial_round, final_round) ==
    initial_round = 1 /\ final_round = number_of_rounds(c) - 1

\* the test of clean_constraints for the window that spans the cipher
FullWindow(c, initial_round, final_round) ==
    initial_round = 1 /\ final_round = number_of_rounds(c)

\* CpImpossibleXorDifferentialModel.clean_constraints
clean_constraints(c, inv, set_of_constraints, initial_round, middle, final_round) ==
    IF FullWindow(c, initial_round, final_round) THEN set_of_constraints
    ELSE KeepLoop(<<>>, ComponentsToKeep(c, inv, initial_round, middle, final_round),
                  set_of_constraints, 1)

\* CpImpossibleXorDifferentialModel.build_impossible_xor_differential_trail_model
\* with number_of_rounds left to its default
build_impossible_xor_differential_trail_model(o, c, inv, fixed_variables, initial_round, middle, final_round) ==
    LET nr == number_of_rounds(c)
        Assemble(direct, inverse, inputs) ==
          LET Prune(prefix, vlist, set_of_constraints) ==
                LET Result(cleaned) ==
                      [prefix |-> prefix,
                       vlist |-> vlist,
                       mcons |-> prefix \o cleaned,
                       sbox_mant |-> inverse.sbox_mant,
                       log |-> direct.log \o inverse.log,
                       set_of_constraints |-> set_of_constraints,
                       cleaned |-> cleaned]
                IN  Result(clean_constraints(c, inv, set_of_constraints,
                                             initial_round, middle, final_round))
              Collect(vlist) ==
                Prune(o.prefix \o inputs[1], vlist,
                      vlist \o fix_variables_value_constraints(fixed_variables)
                        \o direct.constraints \o inverse.constraints
                        \o final_impossible_constraints(c, inv, initial_round, middle,
                                                        final_round))
          IN  Collect(direct.variables \o inverse.variables \o inputs[2])
        Backward(direct) ==
          Assemble(direct,
                   build_impossible_backward_model(ComponentsInRounds(inv, 0, nr - middle + 1),
                                                   direct.sbox_mant),
                   input_impossible_xor_differential_constraints(c, inv, nr, middle))
    IN  Backward(build_impossible_forward_model(ComponentsInRounds(c, 0, middle),
                                                o.sbox_mant))

\* CpImpossibleXorDifferentialModel.impossible_attack_transition_constraints
impossible_attack_transition_constraints(c, middle_rounds) ==
    LET first_round == get_components_in_round(c, middle_rounds[1] - 1)
        last_round == get_components_in_round(c, middle_rounds[3] - 1)
        first_component == first_round[Len(first_round)]
        last_component == last_round[Len(last_round)]
    IN  << "constraint inverse_" \o first_component.id \o " = " \o first_component.id \o ";",
           "constraint inverse_" \o last_component.id \o " = " \o last_component.id \o ";" >>

\* the four component lists of the attack model (lines 103-114 and 632-643)
AttackComponents(c, inv, middle_rounds) ==
    LET nr == number_of_rounds(c) IN
    [forward |-> ComponentsInRounds(c, middle_rounds[1] - 1, middle_rounds[2]),
     backward |-> ComponentsInRounds(inv, nr - middle_rounds[3], nr - middle_rounds[2] + 1),
     initial |-> ComponentsInRounds(inv, nr - middle_rounds[1], nr),
     final |-> ComponentsInRounds(c, middle_rounds[3] - 1, nr)]

\* CpImpossibleXorDifferentialModel.input_impossible_attack_xor_differential_constraints
input_impossible_attack_xor_differential_constraints(c, inv, middle_rounds) ==
    LET comps == AttackComponents(c, inv, middle_rounds)
        fwd == ImpossibleDeclarations(comps.forward \o comps.final, "")
        bwd == ImpossibleDeclarations(comps.backward \o comps.initial, "inverse_")
        outs == OutputIds(get_components_in_round(c, middle_rounds[1] - 1))
    IN  << Flatten([k \in 1..Len(c.inputs) |->
              IF ~StrIn("plaintext", c.inputs[k])
              THEN << "array[0.." \o Str(c.inputs_bit_size[k] - 1) \o "] of var 0..2: inverse_"
                        \o c.inputs[k] \o ";" >>
              ELSE <<>>])
           \o fwd[1] \o bwd[1],
           fwd[2] \o bwd[2]
           \o [k \in 1..Len(outs) |-> "constraint count({component.id},1) > 0;"] >>

\* CpImpossibleXorDifferentialModel.final_impossible_attack_constraints
final_impossible_attack_constraints(c, inv, middle_rounds) ==
    LET cipher_inputs == c.inputs
        cipher_outputs == inv.inputs
        key_ids == extract_key_schedule(c)
        outs == OutputIds(get_components_in_round(c, middle_rounds[1] - 1))
        mid == get_components_in_round(c, middle_rounds[2] - 1)
        new_constraint ==
          "output["
          \o Concat([k \in 1..Len(cipher_inputs) |->
               IF cipher_inputs[k] # "key"
               THEN "\"inverse_" \o cipher_inputs[k] \o " = \"++ show(inverse_"
                      \o cipher_inputs[k] \o ") ++ \"\\n\" ++"
               ELSE "\"" \o cipher_inputs[k] \o " = \"++ show(" \o cipher_inputs[k]
                      \o ") ++ \"\\n\" ++"])
          \o Concat([k \in 1..Len(cipher_outputs) |->
               "\"" \o cipher_outputs[k] \o " = \"++ show(" \o cipher_outputs[k]
                 \o ") ++ \"\\n\" ++ \"0\" ++ \"\\n\" ++"])
          \o Concat([k \in 1..Len(outs) |->
               "\"" \o outs[k] \o " = \"++ show(" \o outs[k] \o ") ++ \"\\n\" ++"])
          \o Concat([k \in 1..Len(outs) |->
               "\"" \o outs[k] \o " = \"++ show(" \o outs[k]
                 \o ") ++ \"\\n\" ++ \"0\" ++ \"\\n\" ++"])
          \o Concat([k \in 1..Len(mid) |-> MiddleComponentParts(mid[k], key_ids).shown])
        incompatibility_constraint ==
          "constraint"
          \o Concat([k \in 1..Len(mid) |-> MiddleComponentParts(mid[k], key_ids).incompatibility])
    IN  << solve_satisfy,
           Slice(incompatibility_constraint, 0, Len(incompatibility_constraint) - 4) \o ";",
           Slice(new_constraint, 0, Len(new_constraint) - 2) \o "];" >>

\* CpImpossibleXorDifferentialModel.build_impossible_xor_differential_attack_model
build_impossible_xor_differential_attack_model(o, c, inv, fixed_variables, middle_rounds) ==
    LET Assemble(final, initial, direct, inverse, inputs) ==
          LET Result(prefix, vlist) ==
                [prefix |-> prefix,
                 vlist |-> vlist,
                 mcons |-> prefix \o vlist
                             \o fix_variables_value_constraints(fixed_variables)
                             \o final.constraints \o initial.constraints
                             \o direct.constraints \o inverse.constraints
                             \o impossible_attack_transition_constraints(c, middle_rounds)
                             \o final_impossible_attack_constraints(c, inv, middle_rounds),
                 sbox_mant |-> inverse.sbox_mant,
                 log |-> final.log \o initial.log \o direct.log \o inverse.log]
          IN  Result(o.prefix \o inputs[1],
                     final.variables \o initial.variables \o direct.variables
                       \o inverse.variables \o inputs[2])
        Build(comps) ==
          LET Initial(final) ==
                LET Direct(initial) ==
                      LET Inverse(direct) ==
                            Assemble(final, initial, direct,
                                     build_impossible_backward_model(comps.backward,
                                                                     direct.sbox_mant),
                                     input_impossible_attack_xor_differential_constraints(
                                         c, inv, middle_rounds))
                      IN  Inverse(build_impossible_forward_model(comps.forward,
                                                                 initial.sbox_mant))
                IN  Direct(build_impossible_backward_model(comps.initial, final.sbox_mant))
          IN  Initial(build_impossible_forward_model(comps.final, o.sbox_mant))
    IN  Build(AttackComponents(c, inv, middle_rounds))

(***************************************************************************)
(* SmtXorDifferentialModel (smt_deterministic_truncated_xor_differential)  *)
(***************************************************************************)
\* the variable names an SMT emitter declares for a component: two per bit
SmtVariables(c) ==
    Flatten([k \in 1..c.output_bit_size |->
               << c.id \o "_" \o Str(k - 1) \o "_0", c.id \o "_" \o Str(k - 1) \o "_1" >>])

\* component.smt_deterministic_truncated_xor_differential_trail_constraints()
smt_deterministic_truncated_xor_differential_trail_constraints(c) ==
    << SmtVariables(c),
       IF c.type = CONSTANT_T
       THEN [k \in 1..c.output_bit_size |->
               "(assert (not " \o c.id \o "_" \o Str(k - 1) \o "_0))"]
       ELSE [k \in 1..Min(c.output_bit_size, Len(c.input_bit_positions[1])) |->
               "(assert (= " \o c.id \o "_" \o Str(k - 1) \o "_0 "
                 \o c.input_id_links[1] \o "_" \o Str(c.input_bit_positions[1][k]) \o "_0))"] >>

\* SmtModel.fix_variables_value_constraints: one assertion per fixed bit
smt_fix_variables_value_constraints(fixed_variables) ==
    Flatten([r \in 1..Len(fixed_variables) |->
       LET fv == fixed_variables[r] IN
       [k \in 1..Len(fv.bit_positions) |->
          LET bit == fv.component_id \o "_" \o Str(fv.bit_positions[k]) \o "_0"
              same == (fv.constraint_type = "equal") = (fv.binary_value[k] = 1)
          IN  IF same THEN "(assert " \o bit \o ")" ELSE "(assert (not " \o bit \o "))"]])

\* the test of line 59 of the SMT builder
SmtSupported(component) ==
    LET component_types == {CONSTANT_T, INTERMEDIATE_OUTPUT, CIPHER_OUTPUT, WORD_OPERATION}
        operation_types == {"ROTATE", "SHIFT"}
    IN  /\ component.type \in component_types
        /\ (component.type # WORD_OPERATION \/ component.description[1] \in operation_types)

\* one iteration of the component loop of the SMT builder (lines 54-65)
SmtModelStep(st, component) ==
    LET Extend(supported, variables, constraints, aliased) ==
          LET Record(vlist, mcons) ==
                [variables |-> variables, constraints |-> constraints, aliased |-> aliased,
                 vlist |-> vlist, mcons |-> mcons,
                 log |-> Append(st.log, LogEntry(component, supported, supported,
                                                 Len(st.vlist), Len(vlist),
                                                 Len(st.mcons), Len(mcons)))]
          IN  Record(st.vlist \o variables,
                     st.mcons \o (IF aliased THEN st.mcons ELSE constraints))
        Emit(supported, out) ==
          IF supported THEN Extend(TRUE, out[1], out[2], FALSE)
          ELSE Extend(FALSE, st.variables, st.constraints, st.aliased)
    IN  Emit(SmtSupported(component),
             smt_deterministic_truncated_xor_differential_trail_constraints(component))

RECURSIVE SmtModelLoop(_, _, _)
SmtModelLoop(st, comps, k) ==
    IF k > Len(comps) THEN st
    ELSE SmtModelLoop(SmtModelStep(st, comps[k]), comps, k + 1)

\* SmtXorDifferentialModel.build_deterministic_truncated_xor_differential_trail_model
build_deterministic_truncated_xor_differential_trail_model(c, fixed_variables) ==
    LET Result(st) == [vlist |-> st.vlist, mcons |-> st.mcons, log |-> st.log]
    IN  Result(SmtModelLoop([variables |-> <<>>, constraints |-> <<>>, aliased |-> TRUE,
                             vlist |-> <<>>,
                             mcons |-> smt_fix_variables_value_constraints(fixed_variables),
                             log |-> <<>>],
                            get_all_components(c), 1))

(***************************************************************************)
(* The model object as a state machine: one action per public method.      *)
(***************************************************************************)
NoSecondCopy == [second_variables |-> <<>>, second_constraints |-> <<>>]

NoCleanCall == [called |-> FALSE, input |-> <<>>, window |-> <<>>, result |-> <<>>]

\* no method applied to drawn arguments
NoCall == [op |-> "none", called |-> FALSE, args |-> <<>>, result |-> <<>>]

Call(op, fixed_variables, second, differences, window, seconds) ==
    [op |-> op, fixed_variables |-> fixed_variables, second |-> second,
     differences |-> differences, window |-> window, seconds |-> seconds]

\* round windows / middle_rounds triples that lie inside the cipher
Windows(c) ==
    {w \in (1..number_of_rounds(c)) \X (1..number_of_rounds(c)) \X (1..number_of_rounds(c)) :
        w[1] <= w[2] /\ w[2] <= w[3]}

(***************************************************************************)
(* The builders read of the object what initialise_model leaves of it: the *)
(* prefix they extend in place and, for the impossible builds, the         *)
(* accumulator; _variables_list and _model_constraints are assigned before *)
(* they are read.  The results are tabulated once, for every cipher,       *)
(* argument and initialised object explored, and the actions read the      *)
(* tables.                                                                 *)
(***************************************************************************)
BuildCipherNames == CipherNames \cup {"sbox"}

\* the values self.sbox_mant takes on an object of the cipher
Accumulators(n) == IF n = "sbox" THEN { <<>>, <<"S">> } ELSE { <<>> }

\* an initialise_model that resets the prefix and keeps the accumulator
initialise_model_keeping(o) == [prefix |-> InitialPrefix, sbox_mant |-> o.sbox_mant]

\* CpModel.initialise_model on the object o = (self._model_prefix,
\* self.sbox_mant): the prefix and the accumulator it leaves
initialise_model(o) == [prefix |-> InitialPrefix, sbox_mant |-> <<>>]

\* the objects a build of the cipher starts from, once initialised
InitialisedObjects(n) == { [prefix |-> InitialPrefix, sbox_mant |-> a] : a \in Accumulators(n) }

CipherModels ==
    UNION { { [object |-> o, cipher |-> n, fixed_variables |-> f, second |-> b,
               model |-> build_cipher_model(o, Cipher(n), f, b)] :
                 o \in InitialisedObjects(n), f \in FixedVariablesChoices, b \in BOOLEAN } :
            n \in BuildCipherNames }

BuiltCipherModel(o, n, f, b) ==
    (CHOOSE t \in CipherModels :
        t.object = o /\ t.cipher = n /\ t.fixed_variables = f /\ t.second = b).model

DifferentialPairModels ==
    UNION { { [object |-> o, cipher |-> n, differences |-> d,
               model |-> LET r1 == build_cipher_model(o, Cipher(n), <<>>, TRUE)
                         IN  build_second_cipher_model(Cipher(n), r1.prefix, r1.vlist,
                                                       r1.mcons, <<>>, d)] :
                 o \in InitialisedObjects(n), d \in DifferencesChoices } :
            n \in BuildCipherNames }

BuiltDifferentialPairModel(o, n, d) ==
    (CHOOSE t \in DifferentialPairModels :
        t.object = o /\ t.cipher = n /\ t.differences = d).model

TrailModels ==
    UNION { { [object |-> o, cipher |-> n, fixed_variables |-> f, window |-> w,
               model |-> build_impossible_xor_differential_trail_model(
                             o, Cipher(n), InverseCipher(n), f, w[1], w[2], w[3])] :
                 o \in InitialisedObjects(n), f \in FixedVariablesChoices,
                 w \in Windows(Cipher(n)) } :
            n \in BuildCipherNames }

BuiltTrailModel(o, n, f, w) ==
    (CHOOSE t \in TrailModels :
        t.object = o /\ t.cipher = n /\ t.fixed_variables = f /\ t.window = w).model

AttackModels ==
    UNION { { [object |-> o, cipher |-> n, fixed_variables |-> f, window |-> w,
               model |-> build_impossible_xor_differential_attack_model(
                             o, Cipher(n), InverseCipher(n), f, w)] :
                 o \in InitialisedObjects(n), f \in FixedVariablesChoices,
                 w \in Windows(Cipher(n)) } :
            n \in BuildCipherNames }

BuiltAttackModel(o, n, f, w) ==
    (CHOOSE t \in AttackModels :
        t.object = o /\ t.cipher = n /\ t.fixed_variables = f /\ t.window = w).model

SmtModels ==
    { [cipher |-> n, fixed_variables |-> f,
       model |-> build_deterministic_truncated_xor_differential_trail_model(Cipher(n), f)] :
         n \in BuildCipherNames, f \in FixedVariablesChoices }

BuiltSmtModel(n, f) ==
    (CHOOSE t \in SmtModels : t.cipher = n /\ t.fixed_variables = f).model

\* self._model_prefix and self.sbox_mant, the fields a build finds on the
\* object and hands to initialise_model
ModelObject == [prefix |-> model_prefix, sbox_mant |-> sbox_mant]

\* the object after CpCipherModel(cipher) / CpImpossibleXorDifferentialModel(cipher)
Init ==
    /\ cipher_name \in CipherNames
    /\ model_prefix = InitialPrefix
    /\ variables_list = <<>>
    /\ model_constraints = <<>>
    /\ sbox_mant = <<>>
    /\ middle_round = 1
    /\ component_log = <<>>
    /\ last = Call("init", <<>>, FALSE, <<>>, <<>>, 0)
    /\ second_copy = NoSecondCopy
    /\ cc = NoCleanCall
    /\ pf = NoCall

BuildCipherModel(fixed_variables, second) ==
    LET InstallCipherModel(r) ==
          /\ model_prefix' = r.prefix
          /\ variables_list' = r.vlist
          /\ model_constraints' = r.mcons
          /\ sbox_mant' = r.sbox_mant
          /\ component_log' = r.log
          /\ last' = Call("build_cipher_model", fixed_variables, second, <<>>, <<>>, 0)
          /\ second_copy' = NoSecondCopy
          /\ cc' = NoCleanCall
          /\ UNCHANGED <<pf, cipher_name, middle_round>>
    IN  InstallCipherModel(BuiltCipherModel(initialise_model(ModelObject),
                                            cipher_name, fixed_variables, second))

BuildSecondCipherModel(fixed_variables, differences) ==
    LET InstallSecondCipherModel(r) ==
          /\ model_prefix' = r.prefix
          /\ variables_list' = r.vlist
          /\ model_constraints' = r.mcons
          /\ component_log' = r.log
          /\ last' = Call("build_second_cipher_model", fixed_variables, last.second,
                          differences, <<>>, last.seconds + 1)
          /\ second_copy' = [second_variables |-> r.second_variables,
                             second_constraints |-> r.second_constraints]
          /\ sbox_mant' = r.sbox_mant
          /\ cc' = NoCleanCall
          /\ UNCHANGED <<pf, cipher_name, middle_round>>
    IN  /\ last.op \in {"build_cipher_model", "build_second_cipher_model"}
        /\ last.seconds < MaxSecondBuilds
        /\ InstallSecondCipherModel(build_second_cipher_model(Cipher(cipher_name), model_prefix,
                                             variables_list, model_constraints,
                                             fixed_variables, differences))

\* CpCipherModel.find_one_differential_pair up to the call of the solver
FindOneDifferentialPair(differences) ==
    LET InstallDifferentialPairModel(r) ==
          /\ model_prefix' = r.prefix
          /\ variables_list' = r.vlist
          /\ model_constraints' = r.mcons
          /\ sbox_mant' = r.sbox_mant
          /\ component_log' = r.log
          /\ last' = Call("find_one_differential_pair", <<>>, TRUE, differences, <<>>,
                          MaxSecondBuilds)
          /\ second_copy' = [second_variables |-> r.second_variables,
                             second_constraints |-> r.second_constraints]
          /\ cc' = NoCleanCall
          /\ UNCHANGED <<pf, cipher_name, middle_round>>
    IN  InstallDifferentialPairModel(
            BuiltDifferentialPairModel(initialise_model(ModelObject),
                                       cipher_name, differences))

BuildImpossibleTrailModel(fixed_variables, w) ==
    LET InstallTrailModel(r) ==
          /\ model_prefix' = r.prefix
          /\ variables_list' = r.vlist
          /\ model_constraints' = r.mcons
          /\ middle_round' = w[2]
          /\ component_log' = r.log
          /\ last' = Call("build_impossible_xor_differential_trail_model", fixed_variables,
                          FALSE, <<>>, w, 0)
          /\ second_copy' = NoSecondCopy
          /\ cc' = [called |-> TRUE, input |-> r.set_of_constraints, window |-> w,
                    result |-> r.cleaned]
          /\ sbox_mant' = r.sbox_mant
          /\ UNCHANGED <<pf, cipher_name>>
    IN  InstallTrailModel(BuiltTrailModel(initialise_model(ModelObject),
                                          cipher_name, fixed_variables, w))

BuildImpossibleAttackModelWritingMiddle(fixed_variables, middle_rounds) ==
    LET InstallAttackModel(r) ==
          /\ model_prefix' = r.prefix
          /\ variables_list' = r.vlist
          /\ model_constraints' = r.mcons
          /\ component_log' = r.log
          /\ last' = Call("build_impossible_xor_differential_attack_model", fixed_variables,
                          FALSE, <<>>, middle_rounds, 0)
          /\ second_copy' = NoSecondCopy
          /\ cc' = NoCleanCall
          /\ sbox_mant' = r.sbox_mant
          /\ middle_round' = middle_rounds[2]
          /\ UNCHANGED <<pf, cipher_name>>
    IN  InstallAttackModel(BuiltAttackModel(initialise_model(ModelObject),
                                            cipher_name, fixed_variables, middle_rounds))

BuildImpossibleAttackModel(fixed_variables, middle_rounds) ==
    LET InstallAttackModel(r) ==
          /\ model_prefix' = r.prefix
          /\ variables_list' = r.vlist
          /\ model_constraints' = r.mcons
          /\ component_log' = r.log
          /\ last' = Call("build_impossible_xor_differential_attack_model", fixed_variables,
                          FALSE, <<>>, middle_rounds, 0)
          /\ second_copy' = NoSecondCopy
          /\ cc' = NoCleanCall
          /\ sbox_mant' = r.sbox_mant
          /\ UNCHANGED <<pf, cipher_name, middle_round>>
    IN  InstallAttackModel(BuiltAttackModel(initialise_model(ModelObject),
                                            cipher_name, fixed_variables, middle_rounds))

BuildSmtModel(fixed_variables) ==
    LET InstallSmtModel(r) ==
          /\ variables_list' = r.vlist
          /\ model_constraints' = r.mcons
          /\ component_log' = r.log
          /\ last' = Call("build_deterministic_truncated_xor_differential_trail_model",
                          fixed_variables, FALSE, <<>>, <<>>, 0)
          /\ second_copy' = NoSecondCopy
          /\ cc' = NoCleanCall
          /\ UNCHANGED <<pf, cipher_name, model_prefix, sbox_mant, middle_round>>
    IN  InstallSmtModel(BuiltSmtModel(cipher_name, fixed_variables))

Next ==
    \/ \E fixed_variables \in FixedVariablesChoices, second \in BOOLEAN :
          BuildCipherModel(fixed_variables, second)
    \/ \E fixed_variables \in FixedVariablesChoices, differences \in DifferencesChoices :
          BuildSecondCipherModel(fixed_variables, differences)
    \/ \E differences \in DifferencesChoices : FindOneDifferentialPair(differences)
    \/ \E fixed_variables \in FixedVariablesChoices, w \in Windows(Cipher(cipher_name)) :
          BuildImpossibleTrailModel(fixed_variables, w)
    \/ \E fixed_variables \in FixedVariablesChoices, w \in Windows(Cipher(cipher_name)) :
          BuildImpossibleAttackModel(fixed_variables, w)
    \/ \E fixed_variables \in FixedVariablesChoices : BuildSmtModel(fixed_variables)

Spec == Init /\ [][Next]_vars

(***************************************************************************)
(* clean_constraints as a function of its arguments: the initial states    *)
(* draw a list and a window, the one action applies the method.            *)
(***************************************************************************)
\* strings the arbitrary input lists are made of
ConstraintPool ==
    { "constraint xor_0_1[0] = 0;",
      "constraint xor_1_0[0] = xor_0_2[0];",
      "solve satisfy;",
      "constraint key[0] = 0;",
      "array[0..1] of var 0..2: inverse_xor_2_0;",
      "constraint inverse_intermediate_output_1_1[0] = inverse_xor_2_0[0];" }

\* the lists handed to clean_constraints: every list of at most MaxListLen
\* pool strings, and the lists the trail builder hands to it
CleanInputs(n) ==
    UNION { [1..len -> ConstraintPool] : len \in 0..MaxListLen }
    \cup { t.model.set_of_constraints :
             t \in {u \in TrailModels : u.cipher = n /\ u.fixed_variables = <<FixKey>>} }

InitClean ==
    /\ cipher_name \in CipherNames
    /\ model_prefix = InitialPrefix
    /\ variables_list = <<>>
    /\ model_constraints = <<>>
    /\ sbox_mant = <<>>
    /\ middle_round = 1
    /\ component_log = <<>>
    /\ last = Call("init", <<>>, FALSE, <<>>, <<>>, 0)
    /\ second_copy = NoSecondCopy
    /\ \E X \in CleanInputs(cipher_name), w \in Windows(Cipher(cipher_name)) :
          cc = [called |-> FALSE, input |-> X, window |-> w, result |-> <<>>]
    /\ pf = NoCall

CleanConstraints ==
    /\ ~cc.called
    /\ cc' = [cc EXCEPT !.called = TRUE,
                        !.result = clean_constraints(Cipher(cipher_name),
                                       InverseCipher(cipher_name), cc.input,
                                       cc.window[1], cc.window[2], cc.window[3])]
    /\ last' = Call("clean_constraints", <<>>, FALSE, <<>>, cc.window, 0)
    /\ UNCHANGED <<pf, cipher_name, model_prefix, variables_list, model_constraints,
                   sbox_mant, middle_round, component_log, second_copy>>

NextClean == CleanConstraints

SpecClean == InitClean /\ [][NextClean]_vars

(***************************************************************************)
(* Reading the generated strings back: identifiers, declarations, uses.    *)
(***************************************************************************)
\* the characters of an identifier of the solver language
IdentChars ==
    { "a", "b", "c", "d", "e", "f", "g", "h", "i", "j", "k", "l", "m",
      "n", "o", "p", "q", "r", "s", "t", "u", "v", "w", "x", "y", "z",
      "A", "B", "C", "D", "E", "F", "G", "H", "I", "J", "K", "L", "M",
      "N", "O", "P", "Q", "R", "S", "T", "U", "V", "W", "X", "Y", "Z",
      "0", "1", "2", "3", "4", "5", "6", "7", "8", "9", "_" }

\* the positions (0-based) of a string that hold an identifier character
IdentPositions(s) == {i \in 0..(Len(s) - 1) : SubSeq(s, i + 1, i + 1) \in IdentChars}

\* the maximal identifier run that starts at position i, given the positions P
TokenAt(s, P, i) ==
    LET ends == {j \in P : j >= i /\ (j + 1) \notin P}
    IN  Slice(s, i, (CHOOSE j \in ends : \A k \in ends : j <= k) + 1)

\* the whole tokens of a string: its maximal runs of identifier characters
Tokens(s) ==
    LET Runs(P) == {TokenAt(s, P, i) : i \in {i \in P : (i - 1) \notin P}}
    IN  Runs(IdentPositions(s))

IsDeclaration(s) == StartsAt(s, "array[", 0)

\* a constraint or an output directive
IsUse(s) == StartsAt(s, "constraint", 0) \/ StartsAt(s, "output[", 0)

\* the array an array declaration declares: the token after ": "
DeclaredName(s) == TokenAt(s, IdentPositions(s), Find(s, ": ", 0) + 2)

\* the arrays declared by the strings before position p of a list
DeclaredBefore(l, p) == {DeclaredName(l[q]) : q \in {q \in 1..(p - 1) : IsDeclaration(l[q])}}

\* every identifier of the set idents that a use of the list mentions is
\* declared at an earlier position of the list
DeclaredBeforeUse(l, idents) ==
    \A p \in 1..Len(l) :
        IsUse(l[p]) => (Tokens(l[p]) \cap idents) \subseteq DeclaredBefore(l, p)

\* the number of strings of a list that satisfy a test
Count(l, Test(_)) == Cardinality({p \in 1..Len(l) : Test(l[p])})

IsSolveDirective(s) == s = solve_satisfy

IsOutputDirective(s) == StartsAt(s, "output[", 0)

\* the cipher input names and component ids of the original copy
OriginalIdentifiers(c) == Range(c.inputs) \cup Range(get_all_components_ids(c))

Prefixed(tag, idents) == {tag \o x : x \in idents}

\* the model of find_one_differential_pair: build_cipher_model(second=True)
\* followed by one build_second_cipher_model
SecondModelBuilt ==
    \/ last.op = "find_one_differential_pair"
    \/ last.op = "build_second_cipher_model" /\ last.second /\ last.seconds = 1

CipherModelBuilt == last.op = "build_cipher_model" /\ ~last.second

TrailModelBuilt == last.op = "build_impossible_xor_differential_trail_model"

AttackModelBuilt == last.op = "build_impossible_xor_differential_attack_model"

SmtModelBuilt == last.op = "build_deterministic_truncated_xor_differential_trail_model"

(***************************************************************************)
(* Claims.                                                                 *)
(***************************************************************************)
\* C1: in the model of build_second_cipher_model run after
\* build_cipher_model(second=True), no second-copy declaration or constraint
\* holds a cipher input name or a component id as a whole token that is not
\* prefixed by 'second_'.  (Violated: only the component's own id and the
\* cipher inputs are rewritten, ids of other components stay unprefixed.)
C1_SecondCopyFullyPrefixed ==
    SecondModelBuilt =>
        \A k \in 1..Len(second_copy.second_variables \o second_copy.second_constraints) :
            Tokens((second_copy.second_variables \o second_copy.second_constraints)[k])
              \cap OriginalIdentifiers(Cipher(cipher_name)) = {}

\* C2: in build_cipher_model and in the SMT builder, the iteration of an
\* unsupported component leaves the variables buffer and the constraints
\* buffer as they were.  (Violated: both buffers are extended with the stale
\* locals, or with the constraints buffer itself.)
C2_UnsupportedLeavesBuffers ==
    (last.op = "build_cipher_model" \/ SmtModelBuilt) =>
        \A k \in 1..Len(component_log) :
            ~component_log[k].supported =>
                /\ component_log[k].variables_after = component_log[k].variables_before
                /\ component_log[k].constraints_after = component_log[k].constraints_before

\* C3: build_impossible_forward_model and build_impossible_backward_model
\* skip an unsupported component: its emitter is not called and nothing is
\* added for it.  (Violated: the test only prints, the emitter is called.)
C3_ImpossibleSkipsUnsupported ==
    (TrailModelBuilt \/ AttackModelBuilt) =>
        \A k \in 1..Len(component_log) :
            ~component_log[k].supported =>
                /\ ~component_log[k].called
                /\ component_log[k].variables_after = component_log[k].variables_before
                /\ component_log[k].constraints_after = component_log[k].constraints_before

\* the layout of an assembled list: the prefix, then the variables list, then
\* strings that are no declarations; the prefix after its include line and
\* the variables list hold declarations only
PrefixVariablesConstraints ==
    LET n == Len(model_prefix) + Len(variables_list)
    IN  /\ Len(model_constraints) >= n
        /\ SubSeq(model_constraints, 1, n) = model_prefix \o variables_list
        /\ \A p \in 2..n : IsDeclaration(model_constraints[p])
        /\ \A p \in (n + 1)..Len(model_constraints) : ~IsDeclaration(model_constraints[p])

\* C4: the model of build_cipher_model(second=False), and the model of
\* build_cipher_model(second=True) followed by build_second_cipher_model, is
\* the prefix declarations, then the variable declarations, then the
\* constraints, and every cipher input, component id or second_-prefixed copy
\* that a constraint or an output directive mentions is declared by an array
\* declaration at an earlier position of the list.
C4_DeclaredBeforeUse ==
    (CipherModelBuilt \/ SecondModelBuilt) =>
        /\ PrefixVariablesConstraints
        /\ DeclaredBeforeUse(model_constraints,
               OriginalIdentifiers(Cipher(cipher_name))
                 \cup Prefixed("second_", OriginalIdentifiers(Cipher(cipher_name))))

\* C4 witness: the differential-pair model of the three-round cipher, whose
\* second copy of xor_0_1 mentions second_key and the constant of the
\* original copy
C4_Witness ==
    /\ SecondModelBuilt
    /\ cipher_name = "xor"
    /\ \E p \in 1..Len(model_constraints) :
          /\ IsUse(model_constraints[p])
          /\ {"second_xor_0_1", "second_key", "constant_0_0"}
               \subseteq Tokens(model_constraints[p])

\* the identifiers of the two directions of the attack model
AttackIdentifiers(c, inv) ==
    OriginalIdentifiers(c)
      \cup Prefixed("inverse_", OriginalIdentifiers(c))
      \cup Prefixed("inverse_", OriginalIdentifiers(inv))

\* C5: in the model of build_impossible_xor_differential_attack_model every
\* identifier that a constraint or the output directive mentions is an array
\* declared earlier in the list, and no string holds an uninterpolated
\* placeholder.  (Violated: 'key' and the inverse_ inputs are used without a
\* declaration, and the count constraint is emitted with the text
\* '{component.id}'.)
C5_AttackModelWellFormed ==
    AttackModelBuilt =>
        /\ DeclaredBeforeUse(model_constraints,
               AttackIdentifiers(Cipher(cipher_name), InverseCipher(cipher_name)))
        /\ \A p \in 1..Len(model_constraints) : ~StrIn("{component.id}", model_constraints[p])

\* C6: every assembled model list holds exactly one solve directive and
\* exactly one output directive.  (Violated: the differential-pair model has
\* two output directives, a pruned trail model has no solve directive.)
C6_OneSolveOneOutput ==
    (CipherModelBuilt \/ SecondModelBuilt \/ TrailModelBuilt) =>
        /\ Count(model_constraints, IsSolveDirective) = 1
        /\ Count(model_constraints, IsOutputDirective) = 1

RECURSIVE SubsequenceFrom(_, _, _, _)
\* a[i..] can be read off b[j..] from left to right
SubsequenceFrom(a, b, i, j) ==
    IF i > Len(a) THEN TRUE
    ELSE IF j > Len(b) THEN FALSE
    ELSE IF a[i] = b[j] THEN SubsequenceFrom(a, b, i + 1, j + 1)
    ELSE SubsequenceFrom(a, b, i, j + 1)

\* the window of the recorded clean_constraints call does not span the cipher
PrunedCall ==
    /\ cc.called
    /\ ~(cc.window[1] = 1 /\ cc.window[3] = number_of_rounds(Cipher(cipher_name)))

\* C7: for a non-full window the result of clean_constraints is a
\* subsequence of its input.  (Violated: the result is grouped by the order
\* of the keep-list, not by the order of the input.)
C7_OrderPreserved ==
    PrunedCall => SubsequenceFrom(cc.result, cc.input, 1, 1)

\* the identifiers the pruning keeps for a window w = (initial, middle, final)
KeepIdentifiers(c, inv, w) ==
    LET nr == number_of_rounds(c)
        Ids(cipher, lo, hi) ==
          UNION { {cipher.rounds[r][k].id : k \in 1..Len(cipher.rounds[r])} : r \in lo..hi }
    IN  Ids(c, w[1], w[2])
          \cup Prefixed("inverse_", Ids(inv, nr - w[3] + 1, nr - w[2] + 1))
          \cup Range(extract_key_schedule(c))
          \cup Prefixed("inverse_", Range(extract_key_schedule(c)))
          \cup {"array["}
          \cup (IF w[1] = 1 THEN Range(c.inputs)
                ELSE {x \in Ids(c, w[1] - 1, w[1] - 1) : StrIn("output", x)})
          \cup (IF w[3] = nr THEN Prefixed("inverse_", Range(inv.inputs)) ELSE {})

\* C8: for a non-full window clean_constraints returns exactly the input
\* strings that contain a keep-list identifier as a substring, each once.
C8_ExactlyTheMatching ==
    PrunedCall =>
        /\ Range(cc.result)
             = {cc.input[p] : p \in {p \in 1..Len(cc.input) :
                   \E x \in KeepIdentifiers(Cipher(cipher_name),
                                            InverseCipher(cipher_name), cc.window) :
                       StrIn(x, cc.input[p])}}
        /\ \A i, j \in 1..Len(cc.result) : i # j => cc.result[i] # cc.result[j]

\* C8 witness: rounds 1..2 of the three-round cipher; the solve directive is
\* dropped and the constraint that matches two kept ids is returned once
C8_Witness ==
    /\ PrunedCall
    /\ cipher_name = "xor"
    /\ cc.window = <<1, 2, 2>>
    /\ cc.input = <<"solve satisfy;", "constraint xor_1_0[0] = xor_0_2[0];">>
    /\ cc.result = <<"constraint xor_1_0[0] = xor_0_2[0];">>

\* C9: with initial_round = 1 and final_round = number_of_rounds,
\* clean_constraints returns its input list unchanged, for every middle round.
C9_FullWindowUnchanged ==
    (/\ cc.called
     /\ cc.window[1] = 1
     /\ cc.window[3] = number_of_rounds(Cipher(cipher_name)))
        => cc.result = cc.input

\* C9 witness: the full window of the three-round cipher with middle round 2,
\* on a list with a duplicate that no keep-list identifier matches
C9_Witness ==
    /\ cc.called
    /\ cipher_name = "xor"
    /\ cc.window = <<1, 2, 3>>
    /\ cc.input = <<"solve satisfy;", "solve satisfy;">>
    /\ cc.result = cc.input

\* C10: clean_constraints is idempotent: applied to its own result with the
\* same window it returns that result.
C10_Idempotent ==
    cc.called =>
        clean_constraints(Cipher(cipher_name), InverseCipher(cipher_name), cc.result,
                          cc.window[1], cc.window[2], cc.window[3]) = cc.result

\* C10 witness: a pruning call that reorders its input
C10_Witness ==
    /\ PrunedCall
    /\ cipher_name = "xor"
    /\ cc.window = <<1, 2, 2>>
    /\ cc.input = <<"constraint key[0] = 0;", "constraint xor_1_0[0] = xor_0_2[0];">>
    /\ cc.result = <<"constraint xor_1_0[0] = xor_0_2[0];", "constraint key[0] = 0;">>

(***************************************************************************)
(* Methods as functions of their arguments: the initial states draw the    *)
(* arguments, the one action applies the method and records the result.    *)
(***************************************************************************)
\* the object of one of the ciphers `names` before any build
Constructed(names) ==
    /\ cipher_name \in names
    /\ model_prefix = InitialPrefix
    /\ variables_list = <<>>
    /\ model_constraints = <<>>
    /\ sbox_mant = <<>>
    /\ middle_round = 1
    /\ component_log = <<>>
    /\ last = Call("init", <<>>, FALSE, <<>>, <<>>, 0)
    /\ second_copy = NoSecondCopy
    /\ cc = NoCleanCall

\* the fields a method applied to drawn arguments leaves alone
object == <<cipher_name, model_prefix, variables_list, model_constraints,
            sbox_mant, middle_round, component_log, last, second_copy, cc>>

\* a call that is still to be made
Pending(op, args) == [op |-> op, called |-> FALSE, args |-> args, result |-> <<>>]

\* every list of at most n elements of pool
Lists(pool, n) == UNION { [1..len -> pool] : len \in 0..n }

\* ids of the backward components handed to
\* clean_inverse_impossible_variables_constraints: ids that are prefixes of
\* one another, in both orders, and an output component
InverseIdLists ==
    { <<"xor_0_1", "xor_0_10", "xor_0_100">>,
      <<"xor_0_10", "xor_0_1">>,
      <<"xor_0_1">>,
      <<"cipher_output_0_2", "xor_0_100">> }

\* declarations the emitters produce for such components
InverseDeclarationPool ==
    { "array[0..1] of var 0..2: xor_0_1;",
      "array[0..1] of var 0..2: xor_0_10;",
      "array[0..1] of var 0..2: xor_0_100;" }

\* constraints the emitters produce for such components
InverseConstraintPool ==
    { "constraint xor_0_100[0] = xor_0_10[0];",
      "constraint xor_0_10[0] = xor_0_1[1];",
      "constraint cipher_output_0_2[0] = xor_0_100[0];",
      "constraint if ((cipher_output_0_2[0] < 2) /\\ (key[0]< 2)) then xor_0_1[0] = (cipher_output_0_2[0] + key[0]) mod 2 else xor_0_1[0] = 2 endif;" }

InitInverse ==
    /\ Constructed({"xor"})
    /\ \E ids \in InverseIdLists,
          v \in Lists(InverseDeclarationPool, MaxListLen),
          c \in Lists(InverseConstraintPool, MaxListLen) :
          pf = Pending("clean_inverse_impossible_variables_constraints", <<ids, v, c>>)

\* the components of the given ids
ComponentsOfIds(ids) == [k \in 1..Len(ids) |-> [id |-> ids[k]]]

CleanInverse ==
    /\ pf.op = "clean_inverse_impossible_variables_constraints"
    /\ ~pf.called
    /\ pf' = [pf EXCEPT !.called = TRUE,
                        !.result = clean_inverse_impossible_variables_constraints(
                                       ComponentsOfIds(pf.args[1]), pf.args[2], pf.args[3])]
    /\ UNCHANGED object

NextInverse == CleanInverse

SpecInverse == InitInverse /\ [][NextInverse]_vars

\* the positions (from 0) where sub occurs in s
OccurrencesOf(sub, s) == {p \in 0..(Len(s) - Len(sub)) : StartsAt(s, sub, p)}

\* every occurrence of sub in s comes right after tag
PrecededBy(tag, sub, s) ==
    \A p \in OccurrencesOf(sub, s) :
        p >= Len(tag) /\ Slice(s, p - Len(tag), p) = tag

\* the recorded call of clean_inverse_impossible_variables_constraints
InverseCleaned ==
    pf.op = "clean_inverse_impossible_variables_constraints" /\ pf.called

\* C11: after clean_inverse_impossible_variables_constraints every occurrence
\* of a backward component id in a returned declaration or constraint, and
\* every occurrence of 'cipher_output' in a returned constraint, is preceded
\* by 'inverse_', and no returned string contains 'inverse_inverse_'.
C11_InversePrefixedOnce ==
    InverseCleaned =>
        /\ \A s \in Range(pf.result[1]) \cup Range(pf.result[2]) :
              /\ ~StrIn("inverse_inverse_", s)
              /\ \A id \in Range(pf.args[1]) : PrecededBy("inverse_", id, s)
        /\ \A s \in Range(pf.result[2]) : PrecededBy("inverse_", "cipher_output", s)

\* C11 witness: xor_0_100 took the tag three times (for xor_0_1, xor_0_10 and
\* xor_0_100) and is returned with one
C11_Witness ==
    /\ InverseCleaned
    /\ pf.args[1] = <<"xor_0_1", "xor_0_10", "xor_0_100">>
    /\ pf.args[2] = <<"array[0..1] of var 0..2: xor_0_100;">>
    /\ pf.args[3] = <<"constraint xor_0_100[0] = xor_0_10[0];">>
    /\ pf.result = << <<"array[0..1] of var 0..2: inverse_xor_0_100;">>,
                      <<"constraint inverse_xor_0_100[0] = inverse_xor_0_10[0];">> >>

\* C12: applying clean_inverse_impossible_variables_constraints to its own
\* result, with the same backward components, returns that result.
C12_InverseTwiceIsOnce ==
    InverseCleaned =>
        clean_inverse_impossible_variables_constraints(
            ComponentsOfIds(pf.args[1]), pf.result[1], pf.result[2]) = pf.result

\* C12 witness: a fragment the first application rewrote, ids and
\* 'cipher_output' alike
C12_Witness ==
    /\ InverseCleaned
    /\ pf.args[1] = <<"xor_0_10", "xor_0_1">>
    /\ pf.args[2] = <<"array[0..1] of var 0..2: xor_0_10;">>
    /\ pf.args[3] = <<"constraint cipher_output_0_2[0] = xor_0_100[0];">>
    /\ pf.result = << <<"array[0..1] of var 0..2: inverse_xor_0_10;">>,
                      <<"constraint inverse_cipher_output_0_2[0] = inverse_xor_0_100[0];">> >>

(***************************************************************************)
(* build_second_cipher_model on ciphers whose names overlap.               *)
(***************************************************************************)
\* a component id that starts with the input name key
KeyPrefixCipher ==
    [inputs |-> <<"plaintext", "key">>, inputs_bit_size |-> <<2, 2>>,
     rounds |-> <<
       << Comp("key_xor_0_0", WORD_OPERATION, "XOR", <<"plaintext", "key">>,
               <<<<0, 1>>, <<0, 1>>>>, 2),
          Comp("cipher_output_0_1", CIPHER_OUTPUT, "cipher_output", <<"key_xor_0_0">>,
               <<<<0, 1>>>>, 2) >> >>]

\* a component id that holds the input name key in its middle
KeyInsideCipher ==
    [inputs |-> <<"plaintext", "key">>, inputs_bit_size |-> <<2, 2>>,
     rounds |-> <<
       << Comp("xor_key_0_0", WORD_OPERATION, "XOR", <<"plaintext", "key">>,
               <<<<0, 1>>, <<0, 1>>>>, 2),
          Comp("cipher_output_0_1", CIPHER_OUTPUT, "cipher_output", <<"xor_key_0_0">>,
               <<<<0, 1>>>>, 2) >> >>]

\* the input name key is a substring of the input name round_key
RoundKeyCipher ==
    [inputs |-> <<"plaintext", "key", "round_key">>, inputs_bit_size |-> <<2, 2, 2>>,
     rounds |-> <<
       << Comp("xor_0_0", WORD_OPERATION, "XOR", <<"plaintext", "round_key">>,
               <<<<0, 1>>, <<0, 1>>>>, 2),
          Comp("xor_0_1", WORD_OPERATION, "XOR", <<"xor_0_0", "key">>,
               <<<<0, 1>>, <<0, 1>>>>, 2),
          Comp("cipher_output_0_2", CIPHER_OUTPUT, "cipher_output", <<"xor_0_1">>,
               <<<<0, 1>>>>, 2) >> >>]

SecondCipherNames == {"toy", "key_prefix", "key_inside", "round_key"}

\* self._cipher of the differential-pair runs
SecondCipher(name) ==
    CASE name = "toy" -> ToyCipher
      [] name = "key_prefix" -> KeyPrefixCipher
      [] name = "key_inside" -> KeyInsideCipher
      [] name = "round_key" -> RoundKeyCipher

InitSecond ==
    /\ Constructed(SecondCipherNames)
    /\ \E first \in FixedVariablesChoices, fixed_variables \in FixedVariablesChoices,
          differences \in DifferencesChoices :
          pf = Pending("build_second_cipher_model", <<first, fixed_variables, differences>>)

\* build_cipher_model(first, second=True) followed by
\* build_second_cipher_model(fixed_variables, differences)
BuildSecondOnOverlap ==
    /\ pf.op = "build_second_cipher_model"
    /\ ~pf.called
    /\ LET Second(m) ==
             build_second_cipher_model(SecondCipher(cipher_name), m.prefix, m.vlist,
                                       m.mcons, pf.args[2], pf.args[3])
           Install(r) ==
             /\ pf' = [pf EXCEPT !.called = TRUE, !.result = r]
             /\ model_prefix' = r.prefix
             /\ variables_list' = r.vlist
             /\ model_constraints' = r.mcons
             /\ sbox_mant' = r.sbox_mant
             /\ component_log' = r.log
             /\ last' = Call("build_second_cipher_model", pf.args[2], TRUE, pf.args[3],
                             <<>>, 1)
             /\ second_copy' = [second_variables |-> r.second_variables,
                                second_constraints |-> r.second_constraints]
             /\ cc' = NoCleanCall
             /\ UNCHANGED <<cipher_name, middle_round>>
       IN  Install(Second(build_cipher_model(
                              initialise_model(ModelObject),
                              SecondCipher(cipher_name), pf.args[1], TRUE)))

NextSecond == BuildSecondOnOverlap

SpecSecond == InitSecond /\ [][NextSecond]_vars

\* C13: after build_second_cipher_model no string of the model list contains
\* 'second_second_', also when a cipher input name is a substring of a
\* component id or of another input name.  (Violated: a component id that
\* starts with an input name is prefixed by both rewrites and nothing
\* collapses the double tag.)
C13_NoDoubleSecond ==
    (pf.op = "build_second_cipher_model" /\ pf.called) =>
        \A s \in Range(model_constraints) : ~StrIn("second_second_", s)

(***************************************************************************)
(* final_second_constraints as a function of the differences.              *)
(***************************************************************************)
InitLink ==
    /\ Constructed(CipherNames)
    /\ \E d0 \in Lists({0, 1}, MaxDifferenceLen), d1 \in Lists({0, 1}, MaxDifferenceLen) :
          pf = Pending("final_second_constraints", <<d0, d1>>)

FinalSecondConstraints ==
    /\ pf.op = "final_second_constraints"
    /\ ~pf.called
    /\ pf' = [pf EXCEPT !.called = TRUE,
                        !.result = final_second_constraints(Cipher(cipher_name), pf.args)]
    /\ UNCHANGED object

NextLink == FinalSecondConstraints

SpecLink == InitLink /\ [][NextLink]_vars

\* the number a decimal digit string denotes, -1 if it is not one digit
Digit(t) == IF \E n \in 0..9 : Str(n) = t THEN CHOOSE n \in 0..9 : Str(n) = t ELSE -1

\* a string read as 'constraint (<x>[<i>] + <y>[<j>]) mod 2 = <d>;'; ok tells
\* whether it has that form
Linking(s) ==
    LET Read(a, b, c, e) ==
          [ok |-> /\ StartsAt(s, "constraint (", 0)
                  /\ a > 0 /\ b > a /\ c > b /\ e > c
                  /\ Slice(s, b, b + 4) = "] + "
                  /\ Slice(s, e, Len(s) - 2) = "]) mod 2 = "
                  /\ Slice(s, Len(s) - 1, Len(s)) = ";",
           x |-> Slice(s, 12, a), i |-> Digit(Slice(s, a + 1, b)),
           y |-> Slice(s, b + 4, c), j |-> Digit(Slice(s, c + 1, e)),
           d |-> Digit(Slice(s, Len(s) - 2, Len(s) - 1))]
        Second(a, b) == Read(a, b, Find(s, "[", b), Find(s, "]", b + 1))
        First(a) == Second(a, Find(s, "]", a))
    IN  First(Find(s, "[", 0))

\* the linking constraint of bit i of x with difference d
LinkOf(x, i, d) == [ok |-> TRUE, x |-> x, i |-> i, y |-> "second_" \o x, j |-> i, d |-> d]

\* the positions of l that hold a linking constraint of bit i of x
LinksOfBit(l, x, i) ==
    {k \in 1..Len(l) : Linking(l[k]).ok /\ Linking(l[k]).x = x /\ Linking(l[k]).i = i}

\* bits a, b satisfy (a + b) mod 2 = d
SatisfiesLink(a, b, d) == (a + b) % 2 = d

BitXor(a, b) == IF a = b THEN 0 ELSE 1

\* the bit size of the plaintext
PlaintextSize(c) == c.inputs_bit_size[CHOOSE k \in 1..Len(c.inputs) : c.inputs[k] = "plaintext"]

\* the last component of the cipher
LastComponent(c) == get_all_components(c)[Len(get_all_components(c))]

\* the recorded call of final_second_constraints
Linked == pf.op = "final_second_constraints" /\ pf.called

\* C14 as stated: exactly one linking constraint per plaintext bit and one per
\* bit of the last component, whatever the differences.  (Violated: the
\* loops run over the entries of differences[0] and differences[1].)
C14_OneLinkPerBit ==
    Linked =>
        /\ \A i \in 0..(PlaintextSize(Cipher(cipher_name)) - 1) :
              Cardinality(LinksOfBit(pf.result, "plaintext", i)) = 1
        /\ \A i \in 0..(LastComponent(Cipher(cipher_name)).output_bit_size - 1) :
              Cardinality(LinksOfBit(pf.result, LastComponent(Cipher(cipher_name)).id, i)) = 1

\* C14 amended: final_second_constraints emits, in order, the linking
\* constraint of plaintext bit i for every entry i of differences[0], the
\* linking constraint of bit i of the last component for every entry i of
\* differences[1], and one output directive; so there is exactly one per bit
\* when the two lists have one entry per bit.  Over bits each linking
\* constraint holds exactly when second_x[i] = x[i] XOR d[i].
C14_OneLinkPerDifference ==
    Linked =>
        LET d0 == pf.args[1]
            d1 == pf.args[2]
            out == LastComponent(Cipher(cipher_name))
        IN  /\ Len(pf.result) = Len(d0) + Len(d1) + 1
            /\ \A k \in 1..Len(d0) :
                  Linking(pf.result[k]) = LinkOf("plaintext", k - 1, d0[k])
            /\ \A k \in 1..Len(d1) :
                  Linking(pf.result[Len(d0) + k]) = LinkOf(out.id, k - 1, d1[k])
            /\ IsOutputDirective(pf.result[Len(pf.result)])
            /\ (Len(d0) = PlaintextSize(Cipher(cipher_name))) =>
                  \A i \in 0..(Len(d0) - 1) :
                      Cardinality(LinksOfBit(pf.result, "plaintext", i)) = 1
            /\ (Len(d1) = out.output_bit_size) =>
                  \A i \in 0..(Len(d1) - 1) :
                      Cardinality(LinksOfBit(pf.result, out.id, i)) = 1
            /\ \A k \in 1..(Len(d0) + Len(d1)), a \in {0, 1}, b \in {0, 1} :
                  SatisfiesLink(a, b, Linking(pf.result[k]).d)
                    <=> b = BitXor(a, (d0 \o d1)[k])

\* C14 witness: differences with one entry per bit of the two-bit cipher
C14_Witness ==
    /\ Linked
    /\ cipher_name = "xor"
    /\ pf.args = << <<1, 0>>, <<0, 1>> >>
    /\ Len(pf.result) = 5
    /\ pf.result[1] = "constraint (plaintext[0] + second_plaintext[0]) mod 2 = 1;"
    /\ pf.result[4] = "constraint (cipher_output_2_1[1] + second_cipher_output_2_1[1]) mod 2 = 1;"

(***************************************************************************)
(* final_impossible_constraints and final_impossible_attack_constraints as *)
(* functions of the cipher and of the window.                              *)
(***************************************************************************)
\* four rounds; round 1 (0-based) holds only a constant and a key-schedule
\* component
KeyRoundCipher ==
    [inputs |-> <<"plaintext", "key">>, inputs_bit_size |-> <<2, 2>>,
     rounds |-> <<
       << Comp("xor_0_0", WORD_OPERATION, "XOR", <<"plaintext", "key">>,
               <<<<0, 1>>, <<0, 1>>>>, 2),
          Comp("intermediate_output_0_1", INTERMEDIATE_OUTPUT, "round_output",
               <<"xor_0_0">>, <<<<0, 1>>>>, 2) >>,
       << Comp("constant_1_0", CONSTANT_T, "0b01", <<>>, <<>>, 2),
          Comp("xor_1_1", WORD_OPERATION, "XOR", <<"key", "constant_1_0">>,
               <<<<0, 1>>, <<0, 1>>>>, 2) >>,
       << Comp("xor_2_0", WORD_OPERATION, "XOR", <<"xor_0_0", "xor_1_1">>,
               <<<<0, 1>>, <<0, 1>>>>, 2),
          Comp("intermediate_output_2_1", INTERMEDIATE_OUTPUT, "round_output",
               <<"xor_2_0">>, <<<<0, 1>>>>, 2) >>,
       << Comp("xor_3_0", WORD_OPERATION, "XOR", <<"xor_2_0", "key">>,
               <<<<0, 1>>, <<0, 1>>>>, 2),
          Comp("cipher_output_3_1", CIPHER_OUTPUT, "cipher_output", <<"xor_3_0">>,
               <<<<0, 1>>>>, 2) >> >>]

KeyRoundCipherInverse ==
    [inputs |-> <<"cipher_output_3_1", "key">>, inputs_bit_size |-> <<2, 2>>,
     rounds |-> <<
       << Comp("constant_1_0", CONSTANT_T, "0b01", <<>>, <<>>, 2),
          Comp("xor_1_1", WORD_OPERATION, "XOR", <<"key", "constant_1_0">>,
               <<<<0, 1>>, <<0, 1>>>>, 2),
          Comp("xor_3_0", WORD_OPERATION, "XOR", <<"cipher_output_3_1", "key">>,
               <<<<0, 1>>, <<0, 1>>>>, 2),
          Comp("intermediate_output_2_1", INTERMEDIATE_OUTPUT, "round_output",
               <<"xor_3_0">>, <<<<0, 1>>>>, 2) >>,
       << Comp("xor_2_0", WORD_OPERATION, "XOR", <<"xor_3_0", "xor_1_1">>,
               <<<<0, 1>>, <<0, 1>>>>, 2) >>,
       << Comp("intermediate_output_0_1", INTERMEDIATE_OUTPUT, "round_output",
               <<"xor_2_0">>, <<<<0, 1>>>>, 2) >>,
       << Comp("xor_0_0", WORD_OPERATION, "XOR", <<"xor_2_0", "key">>,
               <<<<0, 1>>, <<0, 1>>>>, 2),
          Comp("plaintext", CIPHER_OUTPUT, "cipher_output", <<"xor_0_0">>,
               <<<<0, 1>>>>, 2) >> >>]

FinalCipherNames == CipherNames \cup {"key_round"}

\* self._cipher of the runs of the two methods
FinalCipher(name) == IF name = "key_round" THEN KeyRoundCipher ELSE Cipher(name)

\* self.inverse_cipher of the runs of the two methods
FinalInverseCipher(name) ==
    IF name = "key_round" THEN KeyRoundCipherInverse ELSE InverseCipher(name)

InitFinal ==
    /\ Constructed(FinalCipherNames)
    /\ \E op \in {"final_impossible_constraints", "final_impossible_attack_constraints"},
          w \in Windows(FinalCipher(cipher_name)) :
          pf = Pending(op, w)

FinalImpossibleConstraints ==
    /\ pf.op = "final_impossible_constraints"
    /\ ~pf.called
    /\ pf' = [pf EXCEPT !.called = TRUE,
                        !.result = final_impossible_constraints(
                                       FinalCipher(cipher_name), FinalInverseCipher(cipher_name),
                                       pf.args[1], pf.args[2], pf.args[3])]
    /\ UNCHANGED object

FinalImpossibleAttackConstraints ==
    /\ pf.op = "final_impossible_attack_constraints"
    /\ ~pf.called
    /\ pf' = [pf EXCEPT !.called = TRUE,
                        !.result = final_impossible_attack_constraints(
                                       FinalCipher(cipher_name), FinalInverseCipher(cipher_name),
                                       pf.args)]
    /\ UNCHANGED object

NextFinal == FinalImpossibleConstraints \/ FinalImpossibleAttackConstraints

SpecFinal == InitFinal /\ [][NextFinal]_vars

\* the disjuncts '(<input>[p]+inverse_<id>[i]=1)' of one component, one per
\* consumed input bit
DisjunctsOf(component) ==
    [i \in 1..Len(AllInputs(component)) |->
       "(" \o AllInputs(component)[i] \o "+inverse_" \o component.id
         \o "[" \o Str(i - 1) \o "]=1)"]

\* the disjuncts of the components of a round that are neither constants
\* nor key-schedule components
DisjunctsOfRound(c, comps) ==
    Flatten([k \in 1..Len(comps) |->
               IF comps[k].type # CONSTANT_T
                  /\ comps[k].id \notin Range(extract_key_schedule(c))
               THEN DisjunctsOf(comps[k]) ELSE <<>>])

\* the round the incompatibility constraint of the recorded call is about:
\* both methods take the second entry of the window
FinalMiddleRound == get_components_in_round(FinalCipher(cipher_name), pf.args[2] - 1)

\* C15: final_impossible_constraints and final_impossible_attack_constraints
\* each emit exactly one incompatibility constraint, a well-formed
\* 'constraint ...;' that is the non-empty disjunction of the disjuncts of
\* the middle round, for every cipher and window.  (Violated: when the
\* middle round holds only constants and key-schedule components the
\* emitted string is 'constr;'.)
C15_OneIncompatibilityConstraint ==
    (pf.op \in {"final_impossible_constraints", "final_impossible_attack_constraints"}
       /\ pf.called) =>
        /\ Cardinality({k \in 1..Len(pf.result) : StartsAt(pf.result[k], "constraint", 0)}) = 1
        /\ \A k \in 1..Len(pf.result) :
              StartsAt(pf.result[k], "constraint", 0) =>
                  /\ DisjunctsOfRound(FinalCipher(cipher_name), FinalMiddleRound) # <<>>
                  /\ pf.result[k]
                       = "constraint"
                           \o Join(" \\/ ", DisjunctsOfRound(FinalCipher(cipher_name),
                                                             FinalMiddleRound))
                           \o ";"

(***************************************************************************)
(* The solution decoder.  A Python dict is a function from its keys; a     *)
(* call that raises is recorded by the name of the exception in the field  *)
(* `raised` of its result.  An optional argument is <<>> for None and      *)
(* <<n>> for the integer n.                                                *)
(***************************************************************************)
EmptyDict == [x \in {} |-> <<>>]

\* d[k] = v
DictPut(d, k, v) == [x \in (DOMAIN d) \cup {k} |-> IF x = k THEN v ELSE d[x]]

\* d[keys[1]] = values[keys[1]]; d[keys[2]] = ... in order
RECURSIVE DictCopy(_, _, _, _)
DictCopy(d, keys, k, values) ==
    IF k > Len(keys) THEN d
    ELSE DictCopy(DictPut(d, keys[k], values[keys[k]]), keys, k + 1, values)

\* the state of extract_incompatibilities_from_output between two statements
Extracting(raised, bound, incompatibilities) ==
    [raised |-> raised, bound |-> bound, incompatibilities |-> incompatibilities]

\* the first statement: the entry the report starts with
SeedIncompatibilities(c, components_values, initial_round) ==
    IF initial_round = <<>> \/ initial_round = <<0>>
    THEN IF "plaintext" \in DOMAIN components_values
         THEN Extracting("none", TRUE,
                         DictPut(EmptyDict, "plaintext", components_values["plaintext"]))
         ELSE Extracting("KeyError", FALSE, EmptyDict)
    ELSE LET r == initial_round[1] - 2
             nr == number_of_rounds(c)
             Seed(comps) ==
                 IF \E k \in 1..Len(comps) : StrIn("output", comps[k].id)
                 THEN Extracting("NameError", FALSE, EmptyDict)
                 ELSE Extracting("none", FALSE, EmptyDict)
         IN  IF r >= nr \/ r < 0 - nr
             THEN Extracting("IndexError", FALSE, EmptyDict)
             ELSE Seed(get_components_in_round(c, IF r < 0 THEN r + nr ELSE r))

\* the characters of value at the positions, '' past its end
BitsAt(value, positions) ==
    Concat([k \in 1..Len(positions) |-> SubSeq(value, positions[k] + 1, positions[k] + 1)])

\* the statements that add a component with its inputs to the report
AddIncompatibility(st, component, components_values) ==
    IF ~st.bound THEN [st EXCEPT !.raised = "UnboundLocalError"]
    ELSE [st EXCEPT !.incompatibilities =
              DictPut(DictCopy(st.incompatibilities, component.input_id_links, 1,
                               components_values),
                      "inverse_" \o component.id,
                      components_values["inverse_" \o component.id])]

OneZeroOrUnknown(a, b, n) ==
    \E i \in 1..n : SubSeq(a, i, i) # SubSeq(b, i, i)

\* some bit of a and the same bit of b are 0 and 1
OneZero(a, b, n) ==
    \E i \in 1..n : Digit(SubSeq(a, i, i)) + Digit(SubSeq(b, i, i)) = 1

\* one iteration of the loop over the components of the cipher
IncompatibilityStep(st, c, inv, components_values, component) ==
    LET links == component.input_id_links
        positions == component.input_bit_positions
        inverse_id == "inverse_" \o component.id
        Compare(total, value) ==
            IF Len(total) = Len(value)
            THEN IF OneZero(total, value, Len(total))
                 THEN AddIncompatibility(st, component, components_values)
                 ELSE st
            ELSE LET Crossed(k) ==
                         \E inverse_component \in Range(get_all_components(inv)) :
                             /\ links[k] = inverse_component.id
                             /\ ListIn(component.id, inverse_component.input_id_links)
                             /\ Len(positions[k]) = Len(value)
                     Short(k) == Len(components_values[links[k]].value) < Len(value)
                     hits == {k \in 1..Min(Len(links), Len(positions)) :
                                 /\ Crossed(k)
                                 /\ \/ Short(k)
                                    \/ OneZero(components_values[links[k]].value, value,
                                               Len(value))}
                     first == CHOOSE k \in hits : \A h \in hits : k <= h
                 IN  IF hits = {} THEN st
                     ELSE IF Short(first) \/ (st.bound /\ \E k \in hits : Short(k))
                     THEN [st EXCEPT !.raised = "IndexError"]
                     ELSE AddIncompatibility(st, component, components_values)
    IN  IF st.raised # "none" THEN st
        ELSE IF inverse_id \notin DOMAIN components_values THEN st
        ELSE IF \E k \in 1..Len(links) : links[k] \notin DOMAIN components_values THEN st
        ELSE IF \E k \in 1..Min(Len(links), Len(positions)) :
                  \E b \in Range(positions[k]) : b >= Len(components_values[links[k]].value)
             THEN [st EXCEPT !.raised = "IndexError"]
        ELSE Compare(Concat([k \in 1..Min(Len(links), Len(positions)) |->
                                BitsAt(components_values[links[k]].value, positions[k])]),
                     components_values[inverse_id].value)

RECURSIVE IncompatibilityLoop(_, _, _, _, _, _)
IncompatibilityLoop(st, c, inv, components_values, comps, k) ==
    IF k > Len(comps) THEN st
    ELSE IncompatibilityLoop(IncompatibilityStep(st, c, inv, components_values, comps[k]),
                             c, inv, components_values, comps, k + 1)

\* the last statement: the entry of the end of the window
CloseIncompatibilities(st, c, components_values, final_round) ==
    LET ids == get_all_components_ids(c)
        last_id == "inverse_" \o ids[Len(ids)]
        nr == number_of_rounds(c)
        Close(comps) ==
            IF \E k \in 1..Len(comps) : StrIn("output", comps[k].id)
            THEN [st EXCEPT !.raised = "NameError"]
            ELSE st
    IN  IF st.raised # "none" THEN st
        ELSE IF final_round = <<>> \/ final_round = <<nr>>
        THEN IF last_id \notin DOMAIN components_values
             THEN [st EXCEPT !.raised = "KeyError"]
             ELSE IF ~st.bound THEN [st EXCEPT !.raised = "UnboundLocalError"]
             ELSE [st EXCEPT !.incompatibilities = DictPut(@, last_id, components_values[last_id])]
        ELSE LET r == final_round[1] - 1
             IN  IF r >= nr \/ r < 0 - nr
                 THEN [st EXCEPT !.raised = "IndexError"]
                 ELSE Close(get_components_in_round(c, IF r < 0 THEN r + nr ELSE r))

\* the report {'solution1': incompatibilities}, or the exception raised
extract_incompatibilities_from_output(c, inv, components_values, initial_round, final_round) ==
    LET Report(st) ==
            IF st.raised # "none" THEN [raised |-> st.raised, solutions |-> EmptyDict]
            ELSE IF ~st.bound THEN [raised |-> "UnboundLocalError", solutions |-> EmptyDict]
            ELSE [raised |-> "none",
                  solutions |-> DictPut(EmptyDict, "solution1", st.incompatibilities)]
    IN  Report(CloseIncompatibilities(
                   IncompatibilityLoop(SeedIncompatibilities(c, components_values, initial_round),
                                       c, inv, components_values, get_all_components(c), 1),
                   c, components_values, final_round))

\* the key of the bucket of the n-th solution
SolutionKey(n) == "solution" \o Str(n)

\* the lines that separate two solutions
SeparatorLines(output_to_parse) ==
    {j \in 1..Len(output_to_parse) : StrIn("----------", output_to_parse[j])}

\* the partial solutions the decoder starts from: an empty bucket for every
\* solution index, 1-based and incremented on every separator line
parse_solver_information(output_to_parse) ==
    [key \in {SolutionKey(n) : n \in 1..(1 + Cardinality(SeparatorLines(output_to_parse)))}
        |-> EmptyDict]

RECURSIVE DigitsOf(_)
\* the digits of s, in order
DigitsOf(s) ==
    IF Len(s) = 0 THEN ""
    ELSE (IF Digit(SubSeq(s, 1, 1)) >= 0 THEN SubSeq(s, 1, 1) ELSE "") \o DigitsOf(SubSeq(s, 2, Len(s)))

\* the value a line prints after '= ', as a string of digits
format_component_value(component_id, string) ==
    LET Value(at) == IF at < 0 THEN "" ELSE DigitsOf(SliceFrom(string, at + 2))
    IN  Value(Find(string, "= ", 0))

\* the state of _parse_solver_output between two statements; solution_number
\* is 0 as long as the local is not bound: the loop over the expected
\* identifiers binds it, at the start of every iteration
Parsing(raised, components_values, solution_number) ==
    [raised |-> raised, components_values |-> components_values,
     solution_number |-> solution_number]

\* stores the value of a matching line under the key its branch chooses
add_solution_to_components_values(c, inv, component_id, component_solution, st, string) ==
    LET bucket == SolutionKey(st.solution_number)
        Store(key) ==
            IF bucket \notin DOMAIN st.components_values
            THEN [st EXCEPT !.raised = "KeyError"]
            ELSE [st EXCEPT !.components_values =
                      DictPut(@, bucket, DictPut(@[bucket], key, component_solution))]
    IN  IF ListIn(component_id, c.inputs) THEN Store(component_id)
        ELSE IF ListIn(component_id, inv.inputs) THEN Store("inverse_" \o component_id)
        ELSE IF StrIn(component_id \o "_i", string) THEN Store(component_id \o "_i")
        ELSE IF StrIn(component_id \o "_o", string) THEN Store(component_id \o "_o")
        ELSE IF StrIn("inverse_" \o component_id \o " ", string)
             THEN Store("inverse_" \o component_id)
        ELSE IF StrIn(component_id \o " ", string) THEN Store(component_id)
        ELSE st

\* one iteration of the loop over the lines, for one expected identifier
ParseLine(st, c, inv, component_id, string) ==
    IF st.raised # "none" THEN st
    ELSE IF \/ StrIn(component_id \o " ", string)
            \/ StrIn(component_id \o "_i", string)
            \/ StrIn(component_id \o "_o", string)
            \/ StrIn("inverse_" \o component_id, string)
    THEN add_solution_to_components_values(
             c, inv, component_id,
             [value |-> format_component_value(component_id, string)], st, string)
    ELSE IF StrIn("----------", string)
    THEN [st EXCEPT !.solution_number = @ + 1]
    ELSE st

RECURSIVE ParseLines(_, _, _, _, _, _)
ParseLines(st, c, inv, component_id, output_to_parse, j) ==
    IF j > Len(output_to_parse) THEN st
    ELSE ParseLines(ParseLine(st, c, inv, component_id, output_to_parse[j]),
                    c, inv, component_id, output_to_parse, j + 1)

RECURSIVE ParseComponentsCarrying(_, _, _, _, _, _)
\* the loop over the expected identifiers with one solution counter for all
\* of them
ParseComponentsCarrying(st, c, inv, all_components, k, output_to_parse) ==
    IF k > Len(all_components) \/ st.raised # "none" THEN st
    ELSE ParseComponentsCarrying(
             ParseLines([st EXCEPT !.solution_number = IF @ = 0 THEN 1 ELSE @],
                        c, inv, all_components[k], output_to_parse, 1),
             c, inv, all_components, k + 1, output_to_parse)

RECURSIVE ParseComponents(_, _, _, _, _, _)
\* the loop over the expected identifiers: each scan restarts at solution 1
ParseComponents(st, c, inv, all_components, k, output_to_parse) ==
    IF k > Len(all_components) \/ st.raised # "none" THEN st
    ELSE ParseComponents(
             ParseLines([st EXCEPT !.solution_number = 1], c, inv, all_components[k],
                        output_to_parse, 1),
             c, inv, all_components, k + 1, output_to_parse)

\* the identifiers the decoder looks for, in the order it looks for them
ExpectedIdentifiers(c, inv, middle) ==
    LET forward == ComponentsInRounds(c, 0, middle)
        backward == ComponentsInRounds(inv, 0, number_of_rounds(c) - middle + 1)
    IN  c.inputs
          \o [k \in 1..Len(forward) |-> forward[k].id]
          \o [k \in 1..Len(backward) |-> "inverse_" \o backward[k].id]
          \o inv.inputs

\* the decoded map, or the exception raised (time and memory are the helper's)
parse_solver_output(c, inv, middle, output_to_parse, model_type) ==
    LET Decoded(st) ==
            IF st.raised # "none"
            THEN [raised |-> st.raised, components_values |-> EmptyDict]
            ELSE IF StrIn("impossible", model_type) /\ st.solution_number = 0
            THEN [raised |-> "UnboundLocalError", components_values |-> EmptyDict]
            ELSE IF StrIn("impossible", model_type) /\ st.solution_number > 1
            THEN LET Replaced(report) ==
                         [raised |-> report.raised, components_values |-> report.solutions]
                 IN  Replaced(extract_incompatibilities_from_output(
                                  c, inv, st.components_values["solution1"], <<>>, <<>>))
            ELSE [raised |-> "none", components_values |-> st.components_values]
    IN  Decoded(ParseComponents(
                    Parsing("none", parse_solver_information(output_to_parse), 0),
                    c, inv, ExpectedIdentifiers(c, inv, middle), 1, output_to_parse))

(***************************************************************************)
(* _parse_solver_output as a function of the solver's output and of the    *)
(* model kind, for the one-round cipher after construction.                *)
(***************************************************************************)
\* the longest solver output that is decoded
MaxOutputLen == 3

\* lines a solver prints for the one-round cipher, and the separator
OutputLinePool ==
    { "plaintext = [0, 1, 0, 1]",
      "key = [0, 0, 0, 0]",
      "inverse_key = [1, 0, 0, 0]",
      "xor_0_0 = [0, 1, 0, 1]",
      "inverse_xor_0_0 = [1, 1, 0, 1]",
      "inverse_cipher_output_0_1 = [1, 1, 0, 0]",
      "----------" }

ModelTypes == {"impossible_xor_differential", "xor_differential"}

InitParse ==
    /\ Constructed({"toy"})
    /\ \E output_to_parse \in Lists(OutputLinePool, MaxOutputLen), model_type \in ModelTypes :
          pf = Pending("_parse_solver_output", <<output_to_parse, model_type>>)

ParseSolverOutput ==
    /\ pf.op = "_parse_solver_output"
    /\ ~pf.called
    /\ pf' = [pf EXCEPT !.called = TRUE,
                        !.result = parse_solver_output(
                                       Cipher(cipher_name), InverseCipher(cipher_name),
                                       middle_round, pf.args[1], pf.args[2])]
    /\ UNCHANGED object

NextParse == ParseSolverOutput

SpecParse == InitParse /\ [][NextParse]_vars

\* the recorded call, its arguments and its cipher
Decoded == pf.op = "_parse_solver_output" /\ pf.called

OutputToParse == pf.args[1]

ModelType == pf.args[2]

\* the name a value line prints before ' = ', "" for any other line
LineName(string) ==
    LET Name(at) == IF at < 0 THEN "" ELSE Slice(string, 0, at)
    IN  Name(Find(string, " = ", 0))

\* the 1-based number of the solution block line j belongs to
BlockOf(output_to_parse, j) ==
    1 + Cardinality({i \in SeparatorLines(output_to_parse) : i < j})

\* the lines of block n that print a value for name
LinesOf(output_to_parse, n, name) ==
    {j \in 1..Len(output_to_parse) :
        BlockOf(output_to_parse, j) = n /\ name # "" /\ LineName(output_to_parse[j]) = name}

\* the names the solver prints values for: the expected identifiers, the
\* inputs of the inverse cipher with their tag
PrintedNames(c, inv, middle) ==
    Range(ExpectedIdentifiers(c, inv, middle))
      \cup {"inverse_" \o inv.inputs[k] : k \in 1..Len(inv.inputs)}

\* the call returned the raw map, not the incompatibility report
RawMapReturned ==
    /\ Decoded
    /\ pf.result.raised = "none"
    /\ ~(StrIn("impossible", ModelType) /\ SeparatorLines(OutputToParse) # {})

\* C16: every value line '<name> = <value>' of an expected identifier is
\* stored under exactly the key <name> of its solution: the bucket has the
\* key <name> for each such line, and whatever a bucket holds under a key was
\* printed by a line with that very name, so a value printed for
\* inverse_<id> is never stored under <id> nor the other way round.
\* (Violated: a value printed for inverse_key is stored under key.)
C16_StoredUnderItsName ==
    RawMapReturned =>
        \A n \in 1..(1 + Cardinality(SeparatorLines(OutputToParse))) :
            LET bucket == pf.result.components_values[SolutionKey(n)]
            IN  /\ \A name \in PrintedNames(Cipher(cipher_name), InverseCipher(cipher_name),
                                            middle_round) :
                       LinesOf(OutputToParse, n, name) # {} => name \in DOMAIN bucket
                /\ \A key \in DOMAIN bucket :
                       \E j \in LinesOf(OutputToParse, n, key) :
                           bucket[key].value = format_component_value(key, OutputToParse[j])

\* a and b are one identifier, with or without the tag of the inverse cipher
Twin(a, b) == a = b \/ a = "inverse_" \o b \/ b = "inverse_" \o a

\* the lines of block n that print a value for name or for its twin
TwinLinesOf(output_to_parse, n, name) ==
    {j \in 1..Len(output_to_parse) :
        /\ BlockOf(output_to_parse, j) = n
        /\ LineName(output_to_parse[j]) # ""
        /\ Twin(LineName(output_to_parse[j]), name)}

\* the result is the raw map with one bucket per solution block: the values
\* of block n, and only they, are in bucket solution<n>
BucketPerBlock ==
    /\ pf.result.raised = "none"
    /\ \A n \in 1..(1 + Cardinality(SeparatorLines(OutputToParse))) :
          /\ SolutionKey(n) \in DOMAIN pf.result.components_values
          /\ LET bucket == pf.result.components_values[SolutionKey(n)]
             IN  /\ \A name \in PrintedNames(Cipher(cipher_name),
                                             InverseCipher(cipher_name), middle_round) :
                        LinesOf(OutputToParse, n, name) # {}
                            => \E key \in DOMAIN bucket : Twin(key, name)
                 /\ \A key \in DOMAIN bucket :
                        \E j \in TwinLinesOf(OutputToParse, n, key) :
                            bucket[key].value
                              = format_component_value(key, OutputToParse[j])
    /\ Cardinality(SeparatorLines(OutputToParse)) = 1
          => DOMAIN pf.result.components_values = {"solution1", "solution2"}

RawMap(output_to_parse) ==
    parse_solver_output(Cipher(cipher_name), InverseCipher(cipher_name), middle_round,
                        output_to_parse, "").components_values

\* the lines of the first solution block
FirstBlock(output_to_parse) ==
    LET UpTo(at) == SubSeq(output_to_parse, 1, at - 1)
    IN  IF SeparatorLines(output_to_parse) = {} THEN output_to_parse
        ELSE UpTo(CHOOSE j \in SeparatorLines(output_to_parse) :
                      \A i \in SeparatorLines(output_to_parse) : j <= i)

\* C18: the raw map is replaced by the incompatibility report exactly when
\* the model kind contains 'impossible' and the output holds more than one
\* solution block (at least one separator line); the report has the single
\* key solution1 and is the one computed from the values of the first block
\* alone; otherwise the call returns the raw map.  (Violated: the call raises
\* KeyError when the first block prints no plaintext or no inverse_<last id>.)
C18_ReportIffImpossibleBlocks ==
    Decoded =>
        /\ pf.result.raised = "none"
        /\ IF StrIn("impossible", ModelType) /\ SeparatorLines(OutputToParse) # {}
           THEN /\ DOMAIN pf.result.components_values = {"solution1"}
                /\ pf.result.components_values
                     = extract_incompatibilities_from_output(
                           Cipher(cipher_name), InverseCipher(cipher_name),
                           RawMap(FirstBlock(OutputToParse))["solution1"], <<>>, <<>>).solutions
           ELSE pf.result.components_values = RawMap(OutputToParse)

(***************************************************************************)
(* extract_incompatibilities_from_output as a function of the decoded      *)
(* values and of the window.                                               *)
(***************************************************************************)
ExtractCipherNames == {"xor", "key_round"}

\* the identifiers of the components of the cipher with 'output' in their id
OutputTagged(c) ==
    LET comps == get_all_components(c)
    IN  {comps[k].id : k \in {i \in 1..Len(comps) : StrIn("output", comps[i].id)}}

\* the id of the last component of the cipher
LastId(c) == get_all_components_ids(c)[Len(get_all_components_ids(c))]

\* the keys decoded values are drawn over: the plaintext, the output-tagged
\* components of both directions and the input of the last component
ValueKeys(c) ==
    {"plaintext"} \cup OutputTagged(c) \cup {"inverse_" \o id : id \in OutputTagged(c)}
      \cup Range(LastComponent(c).input_id_links)

\* the values of a solution: forward for every untagged key, backward for
\* every key tagged inverse_
ValuesOver(keys, forward, backward) ==
    [key \in keys |-> [value |-> IF StartsAt(key, "inverse_", 0) THEN backward ELSE forward]]

\* None, 0 and the 1-based rounds up to n
OptionalRounds(n) == {<<>>} \cup {<<r>> : r \in 0..n}

InitExtract ==
    /\ Constructed(ExtractCipherNames)
    /\ \E keys \in SUBSET ValueKeys(FinalCipher(cipher_name)),
          backward \in {"01", "11"},
          initial_round \in OptionalRounds(3),
          final_round \in OptionalRounds(number_of_rounds(FinalCipher(cipher_name))) \ {<<0>>} :
          pf = Pending("extract_incompatibilities_from_output",
                       <<ValuesOver(keys, "01", backward), initial_round, final_round>>)

ExtractIncompatibilities ==
    /\ pf.op = "extract_incompatibilities_from_output"
    /\ ~pf.called
    /\ pf' = [pf EXCEPT !.called = TRUE,
                        !.result = extract_incompatibilities_from_output(
                                       FinalCipher(cipher_name), FinalInverseCipher(cipher_name),
                                       pf.args[1], pf.args[2], pf.args[3])]
    /\ UNCHANGED object

NextExtract == ExtractIncompatibilities

SpecExtract == InitExtract /\ [][NextExtract]_vars

\* the recorded call and its arguments
Extracted == pf.op = "extract_incompatibilities_from_output" /\ pf.called

ComponentsValues == pf.args[1]

InitialRound == pf.args[2]

FinalRound == pf.args[3]

\* the report of a call that returned
Report == pf.result.solutions["solution1"]

\* the call returned a report that holds the entry of key
Reports(key) ==
    /\ pf.result.raised = "none"
    /\ DOMAIN pf.result.solutions = {"solution1"}
    /\ key \in DOMAIN Report
    /\ Report[key] = ComponentsValues[key]

\* the output-tagged components of the 1-based round r of the cipher
OutputTaggedOfRound(c, r) ==
    LET comps == get_components_in_round(c, r - 1)
    IN  {comps[k].id : k \in {i \in 1..Len(comps) : StrIn("output", comps[i].id)}}

\* C19: for a window that ends at the last round and values that hold the
\* entries asked for, the call returns a report; the report holds the
\* plaintext entry when the window starts at the first round (initial_round
\* None or 1) and, when initial_round > 1, the entry of the output-tagged
\* component of the round before initial_round.  (Violated: with
\* initial_round >= 1 the call raises NameError.)
C19_SeededReport ==
    (Extracted /\ FinalRound = <<>>
       /\ "inverse_" \o LastId(FinalCipher(cipher_name)) \in DOMAIN ComponentsValues) =>
        /\ (InitialRound \in {<<>>, <<1>>} /\ "plaintext" \in DOMAIN ComponentsValues)
              => Reports("plaintext")
        /\ \A r \in 2..3 :
              InitialRound = <<r>> =>
                  \A id \in OutputTaggedOfRound(FinalCipher(cipher_name), r - 1) :
                      id \in DOMAIN ComponentsValues => Reports(id)

\* C20: for a window that starts at the first round and values that hold the
\* plaintext, the report holds inverse_<last id> when final_round is None or
\* the number of rounds (and the values hold it); with a final_round below
\* the number of rounds the call returns a report that holds, of the
\* inverse_ entries of the output-tagged components of round final_round,
\* exactly those that have a value.  (Violated: with a final_round below the
\* number of rounds the call raises NameError.)
C20_ClosedReport ==
    (Extracted /\ InitialRound = <<>> /\ "plaintext" \in DOMAIN ComponentsValues) =>
        LET c == FinalCipher(cipher_name)
        IN  /\ (FinalRound \in {<<>>, <<number_of_rounds(c)>>}
                  /\ "inverse_" \o LastId(c) \in DOMAIN ComponentsValues)
                  => Reports("inverse_" \o LastId(c))
            /\ \A r \in 1..(number_of_rounds(c) - 1) :
                  FinalRound = <<r>> =>
                      /\ pf.result.raised = "none"
                      /\ \A id \in OutputTaggedOfRound(c, r) :
                            IF "inverse_" \o id \in DOMAIN ComponentsValues
                            THEN Reports("inverse_" \o id)
                            ELSE "inverse_" \o id \notin DOMAIN Report

(***************************************************************************)
(* The builds on an object of a cipher with S-boxes: the emitters of the   *)
(* S-boxes read and extend self.sbox_mant, which outlives the build.       *)
(***************************************************************************)
InitAccumulator ==
    /\ cipher_name = "sbox"
    /\ model_prefix = InitialPrefix
    /\ variables_list = <<>>
    /\ model_constraints = <<>>
    /\ sbox_mant = <<>>
    /\ middle_round = 1
    /\ component_log = <<>>
    /\ last = Call("init", <<>>, FALSE, <<>>, <<>>, 0)
    /\ second_copy = NoSecondCopy
    /\ cc = NoCleanCall
    /\ pf = NoCall

\* build_impossible_forward_model called on its own, on the components of the
\* first `rounds` rounds of the cipher: the lists are returned, of the object
\* only the accumulator is written
BuildImpossibleForwardModel(rounds) ==
    LET Return(r) ==
          /\ sbox_mant' = r.sbox_mant
          /\ pf' = [op |-> "build_impossible_forward_model", called |-> TRUE,
                    args |-> <<rounds>>, result |-> <<r.variables, r.constraints>>]
          /\ UNCHANGED <<cipher_name, model_prefix, variables_list, model_constraints,
                         middle_round, component_log, last, second_copy, cc>>
    IN  Return(build_impossible_forward_model(
                   ComponentsInRounds(Cipher(cipher_name), 0, rounds), sbox_mant))

\* build_impossible_backward_model called on its own, on the components of
\* the first `rounds` rounds of the inverse cipher
BuildImpossibleBackwardModel(rounds) ==
    LET Return(r) ==
          /\ sbox_mant' = r.sbox_mant
          /\ pf' = [op |-> "build_impossible_backward_model", called |-> TRUE,
                    args |-> <<rounds>>, result |-> <<r.variables, r.constraints>>]
          /\ UNCHANGED <<cipher_name, model_prefix, variables_list, model_constraints,
                         middle_round, component_log, last, second_copy, cc>>
    IN  Return(build_impossible_backward_model(
                   ComponentsInRounds(InverseCipher(cipher_name), 0, rounds), sbox_mant))

NextAccumulator ==
    \/ Next
    \/ \E rounds \in 1..number_of_rounds(Cipher(cipher_name)) :
          BuildImpossibleForwardModel(rounds)
    \/ \E rounds \in 1..number_of_rounds(Cipher(cipher_name)) :
          BuildImpossibleBackwardModel(rounds)

SpecAccumulator == InitAccumulator /\ [][NextAccumulator]_vars

\* the lists (_model_prefix, _variables_list, _model_constraints) of the object
ModelLists == <<model_prefix, variables_list, model_constraints>>

ListsOf(r) == <<r.prefix, r.vlist, r.mcons>>

\* the prefix and the accumulator of an object just constructed
FreshObject == [prefix |-> InitialPrefix, sbox_mant |-> <<>>]

\* the lists the last build of the cipher model leaves on the object o, for
\* the builds that empty the accumulator themselves; the lists of the object
\* after any other call
ListsOnObject(o) ==
    CASE last.op = "build_cipher_model" ->
           ListsOf(BuiltCipherModel(o, cipher_name, last.fixed_variables, last.second))
      [] last.op = "find_one_differential_pair" ->
           ListsOf(BuiltDifferentialPairModel(o, cipher_name, last.differences))
      [] OTHER -> ModelLists

\* the lists the last top-level build leaves on an object just constructed
FreshLists ==
    CASE last.op = "build_cipher_model" ->
           ListsOf(BuiltCipherModel(FreshObject, cipher_name, last.fixed_variables,
                                    last.second))
      [] last.op = "find_one_differential_pair" ->
           ListsOf(BuiltDifferentialPairModel(FreshObject, cipher_name, last.differences))
      [] last.op = "build_impossible_xor_differential_trail_model" ->
           ListsOf(BuiltTrailModel(FreshObject, cipher_name, last.fixed_variables,
                                   last.window))
      [] last.op = "build_impossible_xor_differential_attack_model" ->
           ListsOf(BuiltAttackModel(FreshObject, cipher_name, last.fixed_variables,
                                    last.window))

TopLevelBuilds ==
    {"build_cipher_model", "find_one_differential_pair",
     "build_impossible_xor_differential_trail_model",
     "build_impossible_xor_differential_attack_model"}

\* the declaration of the table of the S-boxes is in the model, once
TableDeclaredOnce ==
    Cardinality({k \in 1..Len(model_constraints) :
                    Len(model_constraints[k]) > 27
                    /\ SubSeq(model_constraints[k], 1, 27) = "array[0..3] of int: table_S"}) = 1

DirectiveInputPool == {"plaintext", "key"}

DirectiveIdPool == {"xor_0_0", "rot_0_1", "cipher_output_0_2"}

\* the cipher with the given inputs and, in one round, the given components
DirectiveCipher(inputs, ids) ==
    [inputs |-> inputs, inputs_bit_size |-> [k \in 1..Len(inputs) |-> 2],
     rounds |-> << [k \in 1..Len(ids) |->
                      Comp(ids[k], WORD_OPERATION, "XOR", <<>>, <<>>, 2)] >>]

InitDirective ==
    /\ Constructed({"toy"})
    /\ \E inputs \in Lists(DirectiveInputPool, MaxListLen),
          ids \in Lists(DirectiveIdPool, MaxListLen) :
          pf = Pending("final_constraints", <<inputs, ids>>)

FinalConstraints ==
    /\ pf.op = "final_constraints"
    /\ ~pf.called
    /\ pf' = [pf EXCEPT !.called = TRUE,
                        !.result = final_constraints(DirectiveCipher(pf.args[1], pf.args[2]))]
    /\ UNCHANGED object

NextDirective == FinalConstraints

SpecDirective == InitDirective /\ [][NextDirective]_vars

\* the output directive returned and the identifiers it has to print, in order
Directive == pf.result[2]

Printed == pf.args[1] \o pf.args[2]

RECURSIVE Occurrences(_, _, _)
\* the indices (0-based, increasing) at which sub occurs in s from start on
Occurrences(s, sub, start) ==
    IF Find(s, sub, start) = -1 THEN <<>>
    ELSE <<Find(s, sub, start)>> \o Occurrences(s, sub, Find(s, sub, start) + 1)

Shows == Occurrences(Directive, "show(", 0)

\* the text of the directive from the k-th show( up to the next one
ShowSegment(k) ==
    Slice(Directive, Shows[k] + 5,
          IF k < Len(Shows) THEN Shows[k + 1] ELSE Len(Directive))

\* the k-th show prints the k-th identifier under its label "identifier = "
PrintsLabelled(k) ==
    /\ StartsAt(ShowSegment(k), Printed[k] \o ")", 0)
    /\ StartsAt(Directive, "\"" \o Printed[k] \o " = \"++ show(",
                Shows[k] - Len(Printed[k]) - 8)

\* the k-th printed identifier is followed by the line holding "0"
SentinelAfter(k) == StrIn("\"\\n\" ++ \"0\" ++ \"\\n\"", ShowSegment(k))

\* C22 (as stated): the directive prints every cipher input and then every
\* component identifier, in declaration order, each under its label and each
\* followed by the "0" sentinel line, the cipher inputs included.
C22_SentinelAfterEveryIdentifier ==
    pf.called =>
      /\ Len(Shows) = Len(Printed)
      /\ \A k \in 1..Len(Shows) : PrintsLabelled(k) /\ SentinelAfter(k)

\* C22 (amended): the directive prints every cipher input and then every
\* component identifier, in declaration order, each under its label; the
\* "0" sentinel line follows the component identifiers and only them: a
\* cipher input is printed as "input = " ++ show(input) ++ "\n" alone.
C22_SentinelAfterComponents ==
    pf.called =>
      /\ Len(Shows) = Len(Printed)
      /\ \A k \in 1..Len(Shows) :
            /\ PrintsLabelled(k)
            /\ SentinelAfter(k) <=> k > Len(pf.args[1])

\* a directive of a cipher with two inputs and two components was built
C22_Witness ==
    /\ pf.called
    /\ pf.op = "final_constraints"
    /\ Len(pf.args[1]) = 2
    /\ Len(pf.args[2]) = 2
    /\ Len(Shows) = 4

(***************************************************************************)
(* The declarations of input_constraints and of                            *)
(* input_impossible_xor_differential_constraints on drawn one-round        *)
(* ciphers: the types of the components and the bit width are drawn, the   *)
(* identifiers are distinct as in every cipher.                            *)
(***************************************************************************)
DeclaredTypes == {CONSTANT_T, WORD_OPERATION, SBOX, INTERMEDIATE_OUTPUT, CIPHER_OUTPUT}

DeclaredWidths == {1, 2, 4}

\* the component at place k of round 0, of the given type and width
DeclaredComponent(type, k, w) ==
    Comp(type \o "_0_" \o Str(k - 1), type, IF type = WORD_OPERATION THEN "XOR" ELSE type,
         <<>>, <<>>, w)

DeclaredCipher(types, w) ==
    [inputs |-> <<"plaintext", "key">>, inputs_bit_size |-> <<w, 2>>,
     rounds |-> << [k \in 1..Len(types) |-> DeclaredComponent(types[k], k, w)] >>]

\* a cipher standing for cipher.cipher_inverse(): the same components, read
\* from the output
DeclaredInverse(types, w) ==
    [inputs |-> <<"cipher_output", "key">>, inputs_bit_size |-> <<w, 2>>,
     rounds |-> << [k \in 1..Len(types) |->
                      DeclaredComponent(types[Len(types) + 1 - k], Len(types) + 1 - k, w)] >>]

\* the object with the accumulator as construction left it, or holding the
\* table an earlier build on S-boxes left in it
InitDeclare ==
    /\ cipher_name = "toy"
    /\ model_prefix = InitialPrefix
    /\ variables_list = <<>>
    /\ model_constraints = <<>>
    /\ sbox_mant \in Accumulators("sbox")
    /\ middle_round = 1
    /\ component_log = <<>>
    /\ last = Call("init", <<>>, FALSE, <<>>, <<>>, 0)
    /\ second_copy = NoSecondCopy
    /\ cc = NoCleanCall
    /\ \E op \in {"input_constraints", "input_second_constraints",
                   "input_impossible_xor_differential_constraints"},
          types \in Lists(DeclaredTypes, MaxListLen), w \in DeclaredWidths :
          pf = Pending(op, <<types, w>>)

\* input_constraints empties self.sbox_mant and returns the declarations
InputConstraints ==
    /\ pf.op = "input_constraints"
    /\ ~pf.called
    /\ sbox_mant' = <<>>
    /\ pf' = [pf EXCEPT !.called = TRUE,
                        !.result = input_constraints(DeclaredCipher(pf.args[1], pf.args[2]))]
    /\ UNCHANGED <<cipher_name, model_prefix, variables_list, model_constraints,
                   middle_round, component_log, last, second_copy, cc>>

\* input_second_constraints empties self.sbox_mant and returns the
\* declarations of the second copy
InputSecondConstraints ==
    /\ pf.op = "input_second_constraints"
    /\ ~pf.called
    /\ sbox_mant' = <<>>
    /\ pf' = [pf EXCEPT !.called = TRUE,
                        !.result = input_second_constraints(
                                       DeclaredCipher(pf.args[1], pf.args[2]))]
    /\ UNCHANGED <<cipher_name, model_prefix, variables_list, model_constraints,
                   middle_round, component_log, last, second_copy, cc>>

InputImpossibleXorDifferentialConstraints ==
    /\ pf.op = "input_impossible_xor_differential_constraints"
    /\ ~pf.called
    /\ pf' = [pf EXCEPT !.called = TRUE,
                        !.result = input_impossible_xor_differential_constraints(
                                       DeclaredCipher(pf.args[1], pf.args[2]),
                                       DeclaredInverse(pf.args[1], pf.args[2]), 1, 1)[1]]
    /\ UNCHANGED object

NextDeclare ==
    InputConstraints \/ InputSecondConstraints \/ InputImpossibleXorDifferentialConstraints

SpecDeclare == InitDeclare /\ [][NextDeclare]_vars

\* the identifiers input_constraints has to declare, with their bit widths:
\* the cipher inputs and the components whose type is not constant
ToDeclare ==
    LET c == DeclaredCipher(pf.args[1], pf.args[2])
        comps == get_all_components(c)
    IN  [k \in 1..Len(c.inputs) |-> <<c.inputs[k], c.inputs_bit_size[k]>>]
        \o Flatten([k \in 1..Len(comps) |->
                      IF comps[k].type = CONSTANT_T THEN <<>>
                      ELSE << <<comps[k].id, comps[k].output_bit_size>> >>])

\* array[0..w-1] of var 0..domain: identifier;
ArrayDeclaration(identifier, w, domain) ==
    "array[0.." \o Str(w - 1) \o "] of var 0.." \o domain \o ": " \o identifier \o ";"

\* the declaration declares the identifier, whatever its width and domain
Declares(declaration, identifier) ==
    /\ Len(declaration) > Len(identifier) + 3
    /\ SliceFrom(declaration, Len(declaration) - Len(identifier) - 3)
         = ": " \o identifier \o ";"

\* C23: input_constraints returns one declaration per cipher input and per
\* component whose type is not constant, |inputs| + |non-constant
\* components| in all, every such identifier declared exactly once as
\* array[0..w-1] of var 0..1 with w its bit width, and nothing else; every
\* declaration of input_impossible_xor_differential_constraints is an array
\* with domain 0..2.
C23_OneDeclarationEach ==
    /\ (pf.called /\ pf.op = "input_constraints") =>
         /\ Len(pf.result) = Len(ToDeclare)
         /\ \A k \in 1..Len(ToDeclare) :
               /\ pf.result[k] = ArrayDeclaration(ToDeclare[k][1], ToDeclare[k][2], "1")
               /\ Count(pf.result, LAMBDA d : Declares(d, ToDeclare[k][1])) = 1
    /\ (pf.called /\ pf.op = "input_impossible_xor_differential_constraints") =>
         /\ Len(pf.result) >= 4
         /\ \A k \in 1..Len(pf.result) :
               /\ StartsAt(pf.result[k], "array[0.." \o Str(pf.args[2] - 1) \o "] of var 0..2: ", 0)
                  \/ StartsAt(pf.result[k], "array[0..1] of var 0..2: ", 0)
               /\ ~StrIn("var 0..1", pf.result[k])

\* declarations were returned for a cipher holding a constant and another
\* component, four bits wide
C23_Witness ==
    /\ pf.called
    /\ pf.op = "input_constraints"
    /\ pf.args[2] = 4
    /\ \E i, j \in 1..Len(pf.args[1]) :
          pf.args[1][i] = CONSTANT_T /\ pf.args[1][j] # CONSTANT_T
    /\ Len(pf.result) = 3

\* the strings of the list that start with the given text
StartingWith(l, text) == SelectSeq(l, LAMBDA x : StartsAt(x, text, 0))

\* the array declarations build_cipher_model leaves in the declaration buffers
ArrayDeclarations == StartingWith(model_prefix \o variables_list, "array[")

\* the constraints of the model on the bits of xor_0_0
XorConstraints == StartingWith(model_constraints, "constraint xor_0_0[")

ToyXorConstraints ==
    [k \in 1..4 |->
       "constraint xor_0_0[" \o Str(k - 1) \o "] = (plaintext[" \o Str(k - 1)
         \o "] + key[" \o Str(k - 1) \o "]) mod 2;"]

ToyModelBuilt == cipher_name = "toy" /\ last.op = "build_cipher_model"

\* C24 (as stated): on the toy cipher (plaintext and key of 4 bits, xor_0_0
\* over bits 0-3 of both, one output component) build_cipher_model produces
\* exactly 3 array declarations and exactly the 4 per-bit constraints
\* 'constraint xor_0_0[i] = (plaintext[i] + key[i]) mod 2;'.
C24_ThreeDeclarations ==
    ToyModelBuilt =>
      /\ Len(ArrayDeclarations) = 3
      /\ XorConstraints = ToyXorConstraints

\* C24 (amended): build_cipher_model produces exactly 4 array declarations,
\* of plaintext, key, xor_0_0 and the output component cipher_output_0_1,
\* each with 4 bits of domain 0..1, and exactly the 4 per-bit constraints
\* 'constraint xor_0_0[i] = (plaintext[i] + key[i]) mod 2;'.
C24_FourDeclarations ==
    ToyModelBuilt =>
      /\ ArrayDeclarations = << ArrayDeclaration("plaintext", 4, "1"),
                                ArrayDeclaration("key", 4, "1"),
                                ArrayDeclaration("xor_0_0", 4, "1"),
                                ArrayDeclaration("cipher_output_0_1", 4, "1") >>
      /\ XorConstraints = ToyXorConstraints

\* the plain model of the toy cipher has been built and holds constraints
C24_Witness ==
    /\ ToyModelBuilt
    /\ ~last.second
    /\ last.fixed_variables = <<>>
    /\ Len(XorConstraints) = 4

(***************************************************************************)
(* The component loop of extract_incompatibilities_from_output on a cipher *)
(* whose XOR consumes the upper half of the plaintext: the comparison of   *)
(* equal lengths is made for intermediate_output_0_1, the comparison of    *)
(* different lengths for xor_0_0.                                          *)
(***************************************************************************)
CompareCipher ==
    [inputs |-> <<"plaintext", "key">>, inputs_bit_size |-> <<4, 2>>,
     rounds |-> <<
       << Comp("xor_0_0", WORD_OPERATION, "XOR", <<"plaintext", "key">>,
               <<<<2, 3>>, <<0, 1>>>>, 2),
          Comp("intermediate_output_0_1", INTERMEDIATE_OUTPUT, "round_output",
               <<"plaintext", "xor_0_0">>, <<<<0, 1>>, <<0, 1>>>>, 4) >>,
       << Comp("cipher_output_1_0", CIPHER_OUTPUT, "cipher_output",
               <<"intermediate_output_0_1">>, <<<<0, 1, 2, 3>>>>, 4) >> >>]

CompareCipherInverse ==
    [inputs |-> <<"cipher_output_1_0", "key">>, inputs_bit_size |-> <<4, 2>>,
     rounds |-> <<
       << Comp("intermediate_output_0_1", INTERMEDIATE_OUTPUT, "round_output",
               <<"cipher_output_1_0">>, <<<<0, 1, 2, 3>>>>, 4) >>,
       << Comp("xor_0_0", WORD_OPERATION, "XOR", <<"intermediate_output_0_1", "key">>,
               <<<<2, 3>>, <<0, 1>>>>, 2),
          Comp("plaintext", CIPHER_OUTPUT, "cipher_output",
               <<"intermediate_output_0_1", "xor_0_0">>, <<<<0, 1>>, <<0, 1>>>>, 4) >> >>]

\* the value drawn for a key of the decoded solution; "" leaves the key out
CompareValues ==
    [plaintext |-> {"0000", "0011", "1100", "2222"},
     key |-> {"", "00"},
     xor_0_0 |-> {"", "00", "11"},
     inverse_xor_0_0 |-> {"", "00", "12"},
     inverse_intermediate_output_0_1 |-> {"", "0000", "0011", "2222"},
     inverse_cipher_output_1_0 |-> {"0000"}]

\* {id: {'value': bits}} over the keys given a value
ValuesOf(drawn) ==
    [key \in {k \in DOMAIN drawn : drawn[k] # ""} |-> [value |-> drawn[key]]]

InitCompare ==
    /\ Constructed({"toy"})
    /\ \E p \in CompareValues.plaintext, k \in CompareValues.key, x \in CompareValues.xor_0_0,
          ix \in CompareValues.inverse_xor_0_0,
          ii \in CompareValues.inverse_intermediate_output_0_1,
          io \in CompareValues.inverse_cipher_output_1_0 :
          pf = Pending("extract_incompatibilities_from_output",
                       << ValuesOf([plaintext |-> p, key |-> k, xor_0_0 |-> x,
                                    inverse_xor_0_0 |-> ix,
                                    inverse_intermediate_output_0_1 |-> ii,
                                    inverse_cipher_output_1_0 |-> io]),
                          <<>>, <<>> >>)

CompareIncompatibilities ==
    /\ pf.op = "extract_incompatibilities_from_output"
    /\ ~pf.called
    /\ pf' = [pf EXCEPT !.called = TRUE,
                        !.result = extract_incompatibilities_from_output(
                                       CompareCipher, CompareCipherInverse,
                                       pf.args[1], pf.args[2], pf.args[3])]
    /\ UNCHANGED object

NextCompare == CompareIncompatibilities

SpecCompare == InitCompare /\ [][NextCompare]_vars

\* the call has returned its report
Compared == pf.called /\ pf.result.raised = "none"

Values == pf.args[1]

Reported == pf.result.solutions["solution1"]

\* the component is examined by the loop: its backward value and the values
\* of all its inputs were decoded
Examined(component) ==
    /\ ("inverse_" \o component.id) \in DOMAIN Values
    /\ \A k \in 1..Len(component.input_id_links) :
          component.input_id_links[k] \in DOMAIN Values

\* the forward bits the component consumes, input after input
ConsumedBits(component) ==
    Concat([k \in 1..Len(component.input_id_links) |->
              BitsAt(Values[component.input_id_links[k]].value,
                     component.input_bit_positions[k])])

BackwardBits(component) == Values["inverse_" \o component.id].value

\* at some position one string holds 0 and the other 1
Contradict(a, b) ==
    \E i \in 1..Min(Len(a), Len(b)) :
        {SubSeq(a, i, i), SubSeq(b, i, i)} = {"0", "1"}

\* the inputs of the component are in the report, with their decoded values
InputsReported(component) ==
    \A k \in 1..Len(component.input_id_links) :
        /\ component.input_id_links[k] \in DOMAIN Reported
        /\ Reported[component.input_id_links[k]] = Values[component.input_id_links[k]]

NotLast(component) == component.id # LastId(CompareCipher)

\* C25: for a component examined with as many consumed forward bits as
\* backward bits, other than the final output, inverse_<id> is in the report
\* iff at some position one of the two bits is 0 and the other 1, and then
\* every input of the component is in the report as well.
C25_EqualLengthReport ==
    Compared =>
      \A component \in Range(get_all_components(CompareCipher)) :
          ( /\ NotLast(component)
            /\ Examined(component)
            /\ Len(ConsumedBits(component)) = Len(BackwardBits(component)) ) =>
              /\ ("inverse_" \o component.id) \in DOMAIN Reported
                   <=> Contradict(ConsumedBits(component), BackwardBits(component))
              /\ Contradict(ConsumedBits(component), BackwardBits(component))
                   => /\ InputsReported(component)
                      /\ Reported["inverse_" \o component.id]
                           = Values["inverse_" \o component.id]

\* the comparison of equal lengths found a contradiction for
\* intermediate_output_0_1 and reported it with its inputs
C25_Witness ==
    /\ Compared
    /\ "inverse_intermediate_output_0_1" \in DOMAIN Reported
    /\ "xor_0_0" \in DOMAIN Reported
    /\ Values["inverse_intermediate_output_0_1"].value = "0011"

\* the inputs of the component for which the comparison of different
\* lengths is made: the input is a component of the inverse cipher that
\* reads the component, and it gives as many bits as the backward value has
MatchingLinks(component) ==
    {k \in 1..Len(component.input_id_links) :
        /\ \E inverse_component \in Range(get_all_components(CompareCipherInverse)) :
              /\ inverse_component.id = component.input_id_links[k]
              /\ ListIn(component.id, inverse_component.input_id_links)
        /\ Len(component.input_bit_positions[k]) = Len(BackwardBits(component))}

\* the bits of the k-th input at the positions the component consumes
AlignedSlice(component, k) ==
    BitsAt(Values[component.input_id_links[k]].value, component.input_bit_positions[k])

\* C26: for a component examined with a number of consumed forward bits
\* other than the number of backward bits, inverse_<id> is reported iff for
\* some matching input the bits of that input at the positions the
\* component consumes contradict the backward bits: the bits of the input
\* outside those positions do not decide the outcome.
C26_AlignedSliceCompared ==
    Compared =>
      \A component \in Range(get_all_components(CompareCipher)) :
          ( /\ NotLast(component)
            /\ Examined(component)
            /\ Len(ConsumedBits(component)) # Len(BackwardBits(component)) ) =>
              ( ("inverse_" \o component.id) \in DOMAIN Reported
                  <=> \E k \in MatchingLinks(component) :
                         Contradict(AlignedSlice(component, k), BackwardBits(component)) )

(***************************************************************************)
(* extract_key_schedule on drawn ciphers in topological order: every       *)
(* component is a constant, without inputs, or an operation reading cipher *)
(* inputs and earlier components.                                          *)
(***************************************************************************)
MaxComponents == 3

RECURSIVE Sorted(_)
\* the identifiers of a set as a list: the cipher inputs, then the
\* components in the order of their places
Sorted(set) ==
    IF set = {} THEN <<>>
    ELSE LET Rank(x) == IF x = "plaintext" THEN 0
                        ELSE IF x = "key" THEN 1
                        ELSE 2 + Digit(SubSeq(x, Len(x), Len(x)))
             first == CHOOSE x \in set : \A y \in set : Rank(x) <= Rank(y)
         IN  <<first>> \o Sorted(set \ {first})

\* the identifier of the component drawn for place k
DrawnId(constant, k) == (IF constant THEN "constant_0_" ELSE "xor_0_") \o Str(k - 1)

\* the lists of components of length n in topological order
RECURSIVE TopologicalLists(_)
TopologicalLists(n) ==
    IF n = 0 THEN { <<>> }
    ELSE UNION { { Append(comps, Comp(DrawnId(TRUE, n), CONSTANT_T, "0b01", <<>>, <<>>, 2)) }
                 \cup { Append(comps, Comp(DrawnId(FALSE, n), WORD_OPERATION, "XOR",
                                           Sorted(links),
                                           [j \in 1..Cardinality(links) |-> <<0, 1>>], 2)) :
                          links \in SUBSET ({"plaintext", "key"}
                                            \cup {comps[j].id : j \in 1..Len(comps)}) } :
                 comps \in TopologicalLists(n - 1) }

ScheduleCipher(comps) ==
    [inputs |-> <<"plaintext", "key">>, inputs_bit_size |-> <<2, 2>>, rounds |-> <<comps>>]

InitSchedule ==
    /\ Constructed({"toy"})
    /\ \E n \in 0..MaxComponents : \E comps \in TopologicalLists(n) :
          pf = Pending("extract_key_schedule", comps)

ExtractKeySchedule ==
    /\ pf.op = "extract_key_schedule"
    /\ ~pf.called
    /\ pf' = [pf EXCEPT !.called = TRUE,
                        !.result = extract_key_schedule(ScheduleCipher(pf.args))]
    /\ UNCHANGED object

NextSchedule == ExtractKeySchedule

SpecSchedule == InitSchedule /\ [][NextSchedule]_vars

\* the identifier names a constant component of the drawn cipher
IsConstant(id) == \E k \in 1..Len(pf.args) : pf.args[k].id = id /\ pf.args[k].type = CONSTANT_T

\* one application of the rule: the components each of whose inputs is a
\* constant, key, or classified already
Classify(classified) ==
    classified
      \cup {pf.args[k].id : k \in {j \in 1..Len(pf.args) :
               \A link \in Range(pf.args[j].input_id_links) :
                   IsConstant(link) \/ link = "key" \/ link \in classified}}

RECURSIVE LeastFixedPoint(_)
LeastFixedPoint(classified) ==
    IF Classify(classified) = classified THEN classified
    ELSE LeastFixedPoint(Classify(classified))

\* C27: on a cipher in topological order the identifiers the single pass of
\* extract_key_schedule returns are the least fixed point, started from
\* {key}, of the rule 'a component is key schedule when each of its inputs
\* is a constant, key, or a key-schedule component'; each is returned once.
C27_PassIsLeastFixedPoint ==
    pf.called =>
      /\ Range(pf.result) = LeastFixedPoint({"key"})
      /\ Cardinality(Range(pf.result)) = Len(pf.result)

\* a component reading only a key-schedule component that follows a
\* component of the data path was classified
C27_Witness ==
    /\ pf.called
    /\ Len(pf.args) = 3
    /\ pf.args[1].input_id_links = <<"key">>
    /\ pf.args[2].input_id_links = <<"plaintext", "xor_0_0">>
    /\ pf.args[3].input_id_links = <<"xor_0_0">>
    /\ pf.result = <<"key", "xor_0_0", "xor_0_2">>

RECURSIVE TransitiveInputs(_)
\* the identifiers the component at place k depends on, through its inputs
TransitiveInputs(k) ==
    Range(pf.args[k].input_id_links)
      \cup UNION { TransitiveInputs(j) : j \in {i \in 1..(k - 1) :
                       pf.args[i].id \in Range(pf.args[k].input_id_links)} }

\* C28: every component extract_key_schedule returns has key among its
\* transitive inputs and no other cipher input; a component fed only by
\* constants, or without inputs, is not returned.
C28_ReachableFromKey ==
    pf.called =>
      \A k \in 1..Len(pf.args) :
          pf.args[k].id \in Range(pf.result) =>
              /\ "key" \in TransitiveInputs(k)
              /\ "plaintext" \notin TransitiveInputs(k)

(***************************************************************************)
(* The rewriting loops, one iteration at a time.  pf.args holds the string *)
(* and the identifier the loop is entered with, pf.result the string and   *)
(* the index start of the running loop; pf.called is set when the test of  *)
(* the while fails.                                                        *)
(***************************************************************************)
MaxTokens == 3

\* no iteration is taken on a string longer than this: a text has up to
\* 8 * MaxTokens characters, and a tag of 8 before each of them gives 9 times
\* as many
MaxRewriteLen == 9 * 8 * MaxTokens

RewriteTokens == {"key", "_", "xx", "x", "inverse_", "second_"}

RewriteIdentifiers == {"key", "_", "xx", "x", "e_", "d_key"}

RewriteTexts == {Concat(tokens) : tokens \in Lists(RewriteTokens, MaxTokens)}

\* the tag and the distance the loop of the operation works with
RewriteTag(op) == IF op = "second" THEN "second_" ELSE "inverse_"

RewriteSkip(op) == IF op = "second" THEN SecondSkip ELSE InverseSkip

\* no two occurrences of the identifier share a character
NonOverlapping(text, ident) ==
    \A p, q \in OccurrencesOf(ident, text) : p < q => p + Len(ident) <= q

\* the body of the loops of build_second_cipher_model and of
\* clean_inverse_impossible_variables_constraints, once: (s, start) after it
PrefixStepRescanning(s, ident, tag, skip, start) ==
    << Slice(s, 0, Index(s, ident, start)) \o tag \o SliceFrom(s, Index(s, ident, start)),
       Index(s, ident, start) >>

PrefixStep(s, ident, tag, skip, start) ==
    << Slice(s, 0, Index(s, ident, start)) \o tag \o SliceFrom(s, Index(s, ident, start)),
       Index(s, ident, start) + skip >>

\* the body of the cleanup loop, once
CollapseStep(s, start) ==
    << Slice(s, 0, Index(s, "inverse_inverse_", start))
         \o SliceFrom(s, Index(s, "inverse_inverse_", start) + 8),
       Index(s, "inverse_inverse_", start) >>

InitRewrite ==
    /\ Constructed({"toy"})
    /\ \/ \E op \in {"second", "inverse"}, text \in RewriteTexts,
             ident \in RewriteIdentifiers :
             /\ NonOverlapping(text, ident)
             /\ pf = [op |-> op, called |-> FALSE, args |-> <<text, ident>>,
                      result |-> <<text, 0>>]
       \/ \E text \in RewriteTexts :
             pf = [op |-> "cleanup", called |-> FALSE, args |-> <<text, "inverse_inverse_">>,
                   result |-> <<text, 0>>]

\* one iteration of a 'second_' or 'inverse_' loop
PrefixIteration ==
    /\ pf.op \in {"second", "inverse"}
    /\ ~pf.called
    /\ Len(pf.result[1]) <= MaxRewriteLen
    /\ StrIn(pf.args[2], SliceFrom(pf.result[1], pf.result[2]))
    /\ pf' = [pf EXCEPT !.result = PrefixStep(pf.result[1], pf.args[2], RewriteTag(pf.op),
                                              RewriteSkip(pf.op), pf.result[2])]
    /\ UNCHANGED object

\* one iteration of an 'inverse_inverse_' cleanup loop
CollapseIteration ==
    /\ pf.op = "cleanup"
    /\ ~pf.called
    /\ StrIn("inverse_inverse_", SliceFrom(pf.result[1], pf.result[2]))
    /\ pf' = [pf EXCEPT !.result = CollapseStep(pf.result[1], pf.result[2])]
    /\ UNCHANGED object

\* the test of the while fails: the loop is left
LoopExit ==
    /\ pf.op \in {"second", "inverse", "cleanup"}
    /\ ~pf.called
    /\ ~StrIn(pf.args[2], SliceFrom(pf.result[1], pf.result[2]))
    /\ pf' = [pf EXCEPT !.called = TRUE]
    /\ UNCHANGED object

NextRewrite == PrefixIteration \/ CollapseIteration \/ LoopExit

\* the interpreter runs the loop: an iteration that can be taken is taken
SpecRewrite == InitRewrite /\ [][NextRewrite]_vars /\ WF_vars(NextRewrite)

RECURSIVE TaggedFrom(_, _, _, _)
\* the text from index from on, with the tag put once before each occurrence
\* of the identifier
TaggedFrom(text, ident, tag, from) ==
    IF Find(text, ident, from) = -1 THEN SliceFrom(text, from)
    ELSE Slice(text, from, Find(text, ident, from)) \o tag \o ident
           \o TaggedFrom(text, ident, tag, Find(text, ident, from) + Len(ident))

\* the loop has been left with the string it has to leave
RewriteDone ==
    /\ pf.called
    /\ pf.op \in {"second", "inverse"} =>
         pf.result[1] = TaggedFrom(pf.args[1], pf.args[2], RewriteTag(pf.op), 0)
    /\ pf.op = "cleanup" => Len(pf.result[1]) <= Len(pf.args[1])

\* C29: every 'second_' loop, 'inverse_' loop and 'inverse_inverse_' cleanup
\* loop entered with a finite string and, for the first two, a non-empty
\* identifier whose occurrences do not overlap, is left after finitely many
\* iterations, and a prefixing loop leaves the string with the tag inserted
\* exactly once before each occurrence present when it was entered.
C29_LoopsTerminate == (~pf.called) ~> RewriteDone

\* a prefixing loop was left after tagging three occurrences
C29_Witness ==
    /\ pf.called
    /\ pf.op = "inverse"
    /\ Cardinality(OccurrencesOf(pf.args[2], pf.args[1])) = 3
    /\ Len(pf.result[1]) = Len(pf.args[1]) + 24

(***************************************************************************)
(* The builds followed by the parse of a solver output: the output prints  *)
(* every component of the cipher once, in one solution; no build is made   *)
(* after the parse.                                                        *)
(***************************************************************************)
\* the lines 'identifier = [0, 1]' of the inputs and of all the components
\* of the cipher
OutputOfAllComponents(c) ==
    [k \in 1..Len(c.inputs) |-> c.inputs[k] \o " = [0, 1]"]
      \o [k \in 1..Len(get_all_components_ids(c)) |->
            get_all_components_ids(c)[k] \o " = [0, 1]"]

InitFrame ==
    /\ Constructed(CipherNames)
    /\ \E model_type \in ModelTypes :
          pf = Pending("_parse_solver_output",
                       <<OutputOfAllComponents(Cipher(cipher_name)), model_type>>)

NextFrame == (~pf.called /\ Next) \/ ParseSolverOutput

SpecFrame == InitFrame /\ [][NextFrame]_vars

\* the keys of the first solution of a result of _parse_solver_output
ParsedKeys(p) == DOMAIN p.result.components_values[SolutionKey(1)]

\* the key under which the value printed for an identifier is stored
StoredName(id) ==
    IF ListIn(id, Cipher(cipher_name).inputs) THEN id
    ELSE IF ListIn(id, InverseCipher(cipher_name).inputs) THEN "inverse_" \o id
    ELSE id

\* the keys a parse with middle round m has to store for this output: of the
\* inputs of the cipher and of its inverse and of the components of the
\* forward rounds 0 .. m-1 (the output prints no inverse_ name, so the
\* inverse rounds 0 .. nr-m add none)
DecodedWithMiddle(m) ==
    {StoredName(id) :
       id \in Range(Cipher(cipher_name).inputs) \cup Range(InverseCipher(cipher_name).inputs)
                \cup {component.id :
                        component \in Range(ComponentsInRounds(Cipher(cipher_name), 0, m))}}

TrailBuild == "build_impossible_xor_differential_trail_model"

\* C30: a step changes middle_round only if it is a build of the impossible
\* trail model, which sets it to its middle_round argument; every other
\* build, the attack build included, leaves it as it is; and a parse decodes
\* the identifiers of the forward rounds 0 .. m-1 (and looks for the inverse
\* rounds 0 .. nr-m) with m the value so left: the middle_round of the most
\* recent trail build, 1 before the first.
C30_MiddleRoundFrame ==
    [][ /\ (last' # last /\ last'.op = TrailBuild) => middle_round' = last'.window[2]
        /\ ~(last' # last /\ last'.op = TrailBuild) => middle_round' = middle_round
        /\ (pf'.called /\ pf'.result.raised = "none")
              => ParsedKeys(pf') = DecodedWithMiddle(middle_round) ]_vars

\* the output of an attack model was parsed on an object whose last trail
\* build had middle round 2: the components of the second round were decoded
C30_Witness ==
    /\ pf.called
    /\ cipher_name = "xor"
    /\ last.op = "build_impossible_xor_differential_attack_model"
    /\ last.window[2] # 2
    /\ middle_round = 2
    /\ "xor_1_0" \in ParsedKeys(pf)
    /\ "xor_2_0" \notin ParsedKeys(pf)
====
